---- MODULE Spec2Model ----
(***************************************************************************)
(* A model of the exporter's discovery-to-declaration pipeline             *)
(* (importContext in exporter/context.go): Run, the listing goroutines,    *)
(* Emit, the import workers (resourceHandler / ImportResource / Add), the  *)
(* generation workers (processSingleResource), the per-file writers        *)
(* (handleResourceWrite) and the import aggregator (writeImports), all     *)
(* joined by the shared sync.WaitGroup.                                    *)
(*                                                                         *)
(* Every goroutine is a process; a step of a process is one access to      *)
(* shared state (the importing map, State, Scope, the WaitGroup, a         *)
(* channel), so that the interleavings of the code are the behaviours of   *)
(* the model.                                                              *)
(***************************************************************************)
EXTENDS Naturals, Sequences, FiniteSets, TLC

(***************************************************************************)
(* The universe of the run: two resource kinds, one resource of each.      *)
(***************************************************************************)

\* Importables (resourcesMap): the kinds that can be imported.
Kinds == {"databricks_group", "databricks_job"}

\* importable.Service of each kind.
ServiceOf(k) ==
  CASE k = "databricks_group" -> "groups"
    [] k = "databricks_job" -> "jobs"

AllServices == {ServiceOf(k) : k \in Kinds}

\* The kinds with a channel of their own (makeResourcesChannels).
DedicatedKinds == {"databricks_group"}

\* The name of the shared channel.
DefaultChannel == "default"

Channels == DedicatedKinds \cup {DefaultChannel}

\* defaultNumRoutines: a dedicated channel with no entry in goroutinesNumber
defaultNumRoutines == 2
\* EXPORTER_PARALLELISM_default: the handlers of the default channel
DefaultHandlers == 1

\* startImportChannels: the number of handlers of a channel.
NumRoutines(c) ==
  IF c = DefaultChannel THEN DefaultHandlers ELSE defaultNumRoutines

\* The import workers: <<channel, number>>.
ImportWorkers == UNION {{<<c, n>> : n \in 1..NumRoutines(c)} : c \in Channels}

\* The resources the platform holds, by identity (resource.String()).
Resources == {"g1", "j1"}

NoRes == "none"

\* resource.Resource: the kind of a resource.
KindOf(r) ==
  CASE r = "g1" -> "databricks_group"
    [] r = "j1" -> "databricks_job"

\* What importable.List of a kind emits, in order.
ListOf(k) ==
  CASE k = "databricks_group" -> <<"g1">>
    [] k = "databricks_job" -> <<"j1">>

\* What importable.Import of a resource emits (its dependencies), in order.
DepsOf(r) ==
  CASE r = "j1" -> <<"g1">>
    [] OTHER -> <<>>

Listers == Kinds

\* The listing goroutine of a kind, as a caller of Emit.
ListerOf(k) == <<k, 0>>

\* The callers of Emit: listing goroutines and import workers.
Emitters == {ListerOf(k) : k \in Listers} \cup ImportWorkers

(***************************************************************************)
(* The environment of the run.                                             *)
(***************************************************************************)

\* Values of -updated-since / of startTime in exporter-run-stats.json:
\* absent, not RFC3339, RFC3339.
TimeStrings == {"", "aaa", "2023-07-24T00:00:00Z"}

\* time.Parse(time.RFC3339, s) succeeds.
ParsesRFC3339(s) == s = "2023-07-24T00:00:00Z"

\* What os.Stat / os.MkdirAll find at ic.Directory: a directory, a file,
\* nothing (and MkdirAll succeeds), nothing (and MkdirAll fails).
DirStates == {"dir", "file", "missing", "uncreatable"}

VARIABLES
  pc,              \* where Run is
  retErr,          \* what Run returned ("" while running, "nil" for no error)
  services,        \* ic.services
  incremental,     \* ic.incremental
  updatedSinceStr, \* ic.updatedSinceStr
  notebooksFormat, \* ic.notebooksFormat
  dirState,        \* ic.Directory on disk
  counter,         \* ic.waitGroup
  chans,           \* ic.channels and ic.defaultChannel: the items of each
  importOpen,      \* the import channels are not closed yet
  handlersStarted, \* startImportChannels has run
  listers,         \* the listing goroutines: [st, idx]
  workers,         \* the import workers: [st, r, idx]
  emit,            \* the Emit call each emitter is in: [r, step]
  importing,       \* ic.importing: identity -> "absent" | "false" | "true"
  State,           \* ic.State: the resource approximations, in append order
  Scope,           \* ic.Scope: the resources, in append order
  genChans,        \* "none" | "open" | "closed": resourcesChan, the writers'
                   \* channels and importChan of generateAndWriteResources
  submitted,       \* how many resources of the snapshot Run has submitted
  resourcesChan,   \* the items of resourcesChan
  gens,            \* the generation workers: [st, r]
  writerChan,      \* resourceWriters: service -> the items of its channel
  writers,         \* the writers: [st, cur, existing, new, ioerr], ioerr the
                   \* last I/O operation of the writer that failed
  importChan,      \* the items of importChan
  agg,             \* the import aggregator: [st]
  shImports,       \* ic.shImports
  sh,              \* import.sh: [exists, cmds], its import commands in order
  shOpen,          \* Run holds import.sh open
  files,           \* <service>.tf: [exists, blocks], its blocks in order
  touched,         \* the files this run has created, written or removed
  faults,          \* the I/O failures of the writers so far
  call,            \* the call of a function on its own: its arguments and,
                   \* once it has returned, its result
  variables,       \* ic.variables: the names registered (each with the
                   \* description "")
  refs,            \* the references to variables each generation worker
                   \* comes to: [todo, idx, writing, seen]
  priorVars,       \* vars.tf as the previous run left it
  varsFile,        \* vars.tf: [exists, parses, blocks]
  varsState        \* "none", "generation" while the workers generate, then
                   \* what became of generateVariables

runVars == <<pc, retErr, services, incremental, updatedSinceStr,
             notebooksFormat, dirState>>

listingVars == <<counter, chans, importOpen, handlersStarted, listers, workers,
                 emit, importing, State, Scope>>

genVars == <<genChans, submitted, resourcesChan, gens, writerChan, writers,
             importChan, agg, shImports, sh, shOpen, files, touched, faults>>

varVars == <<variables, refs, priorVars, varsFile, varsState>>

fnVars == <<call, varVars>>

vars == <<runVars, listingVars, genVars, fnVars>>

\* No function is called on its own.
NoCall == [op |-> "none"]

IdleEmit == [r |-> NoRes, step |-> "idle"]

(***************************************************************************)
(* Identity Tracker and State Approximation.                               *)
(***************************************************************************)

InSeq(x, s) == \E i \in 1..Len(s) : s[i] = x

Count(x, s) == Cardinality({i \in 1..Len(s) : s[i] = x})

\* stateApproximation.Has: the state holds an instance of the resource.
StateHas(r) == InSeq(r, State)

\* A mutant of HasInState: only fully added resources count.
HasInState_OnlyAdded(r, onlyAdded) ==
  importing[r] = "true" \/ StateHas(r)

\* importContext.HasInState: v, visiting := ic.isImporting(r.String());
\* visiting && (v || !onlyAdded), or ic.State.Has(r).
HasInState(r, onlyAdded) ==
  \/ importing[r] # "absent" /\ (importing[r] = "true" \/ ~onlyAdded)
  \/ StateHas(r)

\* A Has that asks for the "true" flag.
Has_OnlyAdded(r) == HasInState(r, TRUE)

\* importContext.Has
Has(r) == HasInState(r, FALSE)

\* importContext.isServiceEnabled
isServiceEnabled(service) == service \in services

\* An Emit that sends every resource to the default channel.
ChannelOf_Default(r) == DefaultChannel

\* The channel Emit sends a resource to: ic.channels[r.Resource] when it
\* exists, the default channel otherwise.
ChannelOf(r) ==
  IF KindOf(r) \in DedicatedKinds THEN KindOf(r) ELSE DefaultChannel

(***************************************************************************)
(* Emit, as called by a listing goroutine or by an import worker.          *)
(***************************************************************************)

\* The caller e enters Emit(r).
CallEmit(e, r) == emit' = [emit EXCEPT ![e] = [r |-> r, step |-> "check"]]

\* Emit, up to its dedup test: the identifier is not empty and the kind is
\* importable (true of every resource here), the service is enabled, and
\* ic.Has(r) is false; otherwise Emit returns.
EmitCheck(e) ==
  /\ emit[e].step = "check"
  /\ LET r == emit[e].r IN
     IF ~isServiceEnabled(ServiceOf(KindOf(r))) \/ Has(r)
       THEN emit' = [emit EXCEPT ![e] = IdleEmit]
       ELSE emit' = [emit EXCEPT ![e].step = "mark"]
  /\ UNCHANGED <<counter, chans, importOpen, handlersStarted, listers, workers,
                 importing, State, Scope>>

\* Emit: ic.setImportingState(r.String(), false); the kind is in
\* ic.Resources and the level matches, so Emit goes on to
\* ic.waitGroup.Add(1).
EmitMark(e) ==
  /\ emit[e].step = "mark"
  /\ importing' = [importing EXCEPT ![emit[e].r] = "false"]
  /\ counter' = counter + 1
  /\ emit' = [emit EXCEPT ![e].step = "send"]
  /\ UNCHANGED <<chans, importOpen, handlersStarted, listers, workers,
                 State, Scope>>

\* Emit: ch <- r, on the channel of the kind or on the default channel.
EmitSend(e) ==
  /\ emit[e].step = "send"
  /\ chans' = [chans EXCEPT ![ChannelOf(emit[e].r)] = Append(@, emit[e].r)]
  /\ emit' = [emit EXCEPT ![e] = IdleEmit]
  /\ UNCHANGED <<counter, importOpen, handlersStarted, listers, workers,
                 importing, State, Scope>>

(***************************************************************************)
(* The listing goroutines (Run's go func around ir.List).                  *)
(***************************************************************************)

\* ir.List discovers its next resource and calls ic.Emit.
ListerEmit(k) ==
  /\ listers[k].st = "running"
  /\ emit[ListerOf(k)].step = "idle"
  /\ listers[k].idx <= Len(ListOf(k))
  /\ CallEmit(ListerOf(k), ListOf(k)[listers[k].idx])
  /\ listers' = [listers EXCEPT ![k].idx = @ + 1]
  /\ UNCHANGED <<counter, chans, importOpen, handlersStarted, workers,
                 importing, State, Scope>>

\* The goroutine of a listing ends: its position is dropped and
\* ic.waitGroup.Done() runs.
ListerEnd(k, st) ==
  /\ listers[k].st = "running"
  /\ emit[ListerOf(k)].step = "idle"
  /\ listers' = [listers EXCEPT ![k] = [st |-> st, idx |-> 1]]
  /\ counter' = counter - 1
  /\ UNCHANGED <<chans, importOpen, handlersStarted, workers, emit,
                 importing, State, Scope>>

\* ir.List returns nil, having discovered all the resources of ListOf or
\* only the first of them (the workspace holds no more).
ListerDone(k) == ListerEnd(k, "done")

\* A mutant of ListerFail: the failed listing does not release its slot.
ListerFail_NoDone(k) ==
  /\ listers[k].st = "running"
  /\ emit[ListerOf(k)].step = "idle"
  /\ listers' = [listers EXCEPT ![k] = [st |-> "failed", idx |-> 1]]
  /\ UNCHANGED <<counter, chans, importOpen, handlersStarted, workers, emit,
                 importing, State, Scope>>

\* ir.List returns an error, at any point of the listing; the error is
\* logged.
ListerFail(k) == ListerEnd(k, "failed")

(***************************************************************************)
(* The import workers: resourceHandler, resource.ImportResource, Add.      *)
(***************************************************************************)

\* A handler that takes an item from its channel and lets it fall.
WorkerRecv_Lost(w) ==
  /\ handlersStarted
  /\ workers[w].st = "idle"
  /\ chans[w[1]] # <<>>
  /\ chans' = [chans EXCEPT ![w[1]] = Tail(@)]
  /\ UNCHANGED <<counter, importOpen, listers, emit, importing, State, Scope,
                 handlersStarted, workers>>

\* resourceHandler: for r := range ch, one item received.
WorkerRecv(w) ==
  /\ handlersStarted
  /\ workers[w].st = "idle"
  /\ chans[w[1]] # <<>>
  /\ workers' = [workers EXCEPT ![w] =
                   [st |-> "import", r |-> Head(chans[w[1]]), idx |-> 1]]
  /\ chans' = [chans EXCEPT ![w[1]] = Tail(@)]
  /\ UNCHANGED <<counter, importOpen, listers, emit, importing, State, Scope,
                 handlersStarted>>

\* resourceHandler: the handler is at its range over a channel that is
\* closed and drained, so the loop ends and the goroutine returns. Leaving
\* the loop changes nothing another goroutine reads: it is not a step.
WorkerExited(w) ==
  /\ handlersStarted
  /\ workers[w].st = "idle"
  /\ chans[w[1]] = <<>>
  /\ ~importOpen

\* resourceHandler: the handler waits at its range over an open, empty
\* channel.
WorkerBlocked(w) ==
  /\ handlersStarted
  /\ workers[w].st = "idle"
  /\ chans[w[1]] = <<>>
  /\ importOpen

\* ImportResource: reading the resource (or ir.Import) fails; the resource
\* is not added. The deferred ic.waitGroup.Done() runs.
ImportFail(w) ==
  /\ workers[w].st = "import"
  /\ emit[w].step = "idle"
  /\ workers' = [workers EXCEPT ![w] = [st |-> "idle", r |-> NoRes, idx |-> 1]]
  /\ counter' = counter - 1
  /\ UNCHANGED <<chans, importOpen, listers, emit, importing, State, Scope,
                 handlersStarted>>

\* ImportResource: ir.Import emits the next dependency of the resource.
ImportEmit(w) ==
  /\ workers[w].st = "import"
  /\ emit[w].step = "idle"
  /\ workers[w].idx <= Len(DepsOf(workers[w].r))
  /\ CallEmit(w, DepsOf(workers[w].r)[workers[w].idx])
  /\ workers' = [workers EXCEPT ![w].idx = @ + 1]
  /\ UNCHANGED <<counter, chans, importOpen, listers, importing, State, Scope,
                 handlersStarted>>

\* ImportResource calls ic.Add(r). Add: if ic.HasInState(r, true) { return }
AddCheck(w) ==
  /\ workers[w].st = "import"
  /\ emit[w].step = "idle"
  /\ workers[w].idx > Len(DepsOf(workers[w].r))
  /\ workers' = [workers EXCEPT ![w].st =
                   IF HasInState(workers[w].r, TRUE) THEN "fin" ELSE "addMark"]
  /\ UNCHANGED <<counter, chans, importOpen, listers, emit, importing, State,
                 Scope, handlersStarted>>

\* Add: ic.setImportingState(r.String(), true)
AddMark(w) ==
  /\ workers[w].st = "addMark"
  /\ importing' = [importing EXCEPT ![workers[w].r] = "true"]
  /\ workers' = [workers EXCEPT ![w].st = "addAppend"]
  /\ UNCHANGED <<counter, chans, importOpen, listers, emit, State, Scope,
                 handlersStarted>>

\* Add with an append that puts the resource in place of what State and
\* Scope held.
AddAppend_Replace(w) ==
  /\ workers[w].st = "addAppend"
  /\ State' = <<workers[w].r>>
  /\ Scope' = <<workers[w].r>>
  /\ workers' = [workers EXCEPT ![w].st = "fin"]
  /\ UNCHANGED <<counter, chans, importOpen, listers, emit, importing,
                 handlersStarted>>

\* Add with no append to Scope.
AddAppend_NoScope(w) ==
  /\ workers[w].st = "addAppend"
  /\ State' = Append(State, workers[w].r)
  /\ workers' = [workers EXCEPT ![w].st = "fin"]
  /\ UNCHANGED <<counter, chans, importOpen, listers, emit, importing, Scope,
                 handlersStarted>>

\* Add: ic.State.Append(resourceApproximation{...}); ic.Scope.Append(r)
AddAppend(w) ==
  /\ workers[w].st = "addAppend"
  /\ State' = Append(State, workers[w].r)
  /\ Scope' = Append(Scope, workers[w].r)
  /\ workers' = [workers EXCEPT ![w].st = "fin"]
  /\ UNCHANGED <<counter, chans, importOpen, listers, emit, importing,
                 handlersStarted>>

\* Add: state := r.Data.State(); if state == nil { log; return }. The
\* resource is marked as added and is in neither State nor Scope.
AddNilState(w) ==
  /\ workers[w].st = "addAppend"
  /\ workers' = [workers EXCEPT ![w].st = "fin"]
  /\ UNCHANGED <<counter, chans, importOpen, listers, emit, importing, State,
                 Scope, handlersStarted>>

\* ImportResource returns: the deferred ic.waitGroup.Done().
ImportDone(w) ==
  /\ workers[w].st = "fin"
  /\ workers' = [workers EXCEPT ![w] = [st |-> "idle", r |-> NoRes, idx |-> 1]]
  /\ counter' = counter - 1
  /\ UNCHANGED <<chans, importOpen, listers, emit, importing, State, Scope,
                 handlersStarted>>

(***************************************************************************)
(* Run, up to the end of listing.                                          *)
(***************************************************************************)

\* return fmt.Errorf(...) / return err: Run returns; the deferred
\* sh.Close() runs when import.sh was opened.
Return(err) ==
  /\ pc' = "returned"
  /\ retErr' = err
  /\ shOpen' = FALSE

\* if len(ic.services) == 0 { return fmt.Errorf("no services to import") }
RunCheckServices ==
  /\ pc = "start"
  /\ IF services = {}
       THEN Return("no services to import")
       ELSE pc' = "incremental" /\ UNCHANGED <<retErr, shOpen>>
  /\ UNCHANGED <<services, incremental, updatedSinceStr, notebooksFormat,
                 dirState>>

\* if ic.incremental { ... }: the timestamp is taken from the statistics of
\* the last run when none is given (getLastRunString), and parsed.
RunCheckIncremental ==
  /\ pc = "incremental"
  /\ IF ~incremental
       THEN pc' = "format" /\ UNCHANGED <<retErr, shOpen, updatedSinceStr>>
       ELSE \E lastRun \in TimeStrings :
              LET str == IF updatedSinceStr = "" THEN lastRun
                         ELSE updatedSinceStr IN
              IF str = ""
                THEN Return("-updated-since is required") /\ updatedSinceStr' = str
                ELSE IF ~ParsesRFC3339(str)
                  THEN Return("can't parse value") /\ updatedSinceStr' = str
                  ELSE pc' = "format" /\ updatedSinceStr' = str
                       /\ UNCHANGED <<retErr, shOpen>>
  /\ UNCHANGED <<services, incremental, notebooksFormat, dirState>>

\* ic.notebooksFormat is SOURCE or a key of fileExtensionFormatMapping.
RunCheckFormat ==
  /\ pc = "format"
  /\ IF notebooksFormat # "SOURCE"
       THEN Return("unsupported notebook format")
       ELSE pc' = "directory" /\ UNCHANGED <<retErr, shOpen>>
  /\ UNCHANGED <<services, incremental, updatedSinceStr, notebooksFormat,
                 dirState>>

\* A mutant of RunCheckDirectory: a path that is no directory is accepted.
RunCheckDirectory_NoCheck ==
  /\ pc = "directory"
  /\ pc' = "clients"
  /\ UNCHANGED <<retErr, shOpen, services, incremental, updatedSinceStr,
                 notebooksFormat, dirState>>

\* os.Stat(ic.Directory), os.MkdirAll when it does not exist.
RunCheckDirectory ==
  /\ pc = "directory"
  /\ CASE dirState = "dir" ->
            pc' = "clients" /\ UNCHANGED <<retErr, shOpen, dirState>>
       [] dirState = "missing" ->
            pc' = "clients" /\ dirState' = "dir" /\ UNCHANGED <<retErr, shOpen>>
       [] dirState = "uncreatable" ->
            Return("can't create directory") /\ UNCHANGED dirState
       [] dirState = "file" ->
            Return("the path is not a directory") /\ UNCHANGED dirState
  /\ UNCHANGED <<services, incremental, updatedSinceStr, notebooksFormat>>

\* The account or workspace client is set up and the current user is read;
\* Run returns the error of either.
RunClients ==
  /\ pc = "clients"
  /\ \/ Return("client error")
     \/ pc' = "startImport" /\ UNCHANGED <<retErr, shOpen>>
  /\ UNCHANGED <<services, incremental, updatedSinceStr, notebooksFormat,
                 dirState>>

RunSetup ==
  /\ \/ RunCheckServices
     \/ RunCheckIncremental
     \/ RunCheckFormat
     \/ RunCheckDirectory
     \/ RunClients
  /\ UNCHANGED <<listingVars, genChans, submitted, resourcesChan, gens,
                 writerChan, writers, importChan, agg, shImports, sh, files,
                 touched, faults,
                 fnVars>>

\* ic.startImportChannels(): the handlers of every channel are started.
RunStartImportChannels ==
  /\ pc = "startImport"
  /\ handlersStarted' = TRUE
  /\ pc' = "listing"
  /\ UNCHANGED <<counter, chans, importOpen, listers, workers, emit,
                 importing, State, Scope>>

\* The kinds Run lists: ir.List is set and the service is part of the
\* listing (the listing is the enabled services).
Listed(k) == ServiceOf(k) \in services

\* The listing loop: for every listed kind, ic.waitGroup.Add(1) and
\* go func() { ir.List(ic) ... }(). The goroutines only start to run here.
RunStartListing ==
  /\ pc = "listing"
  /\ counter' = counter + Cardinality({k \in Kinds : Listed(k)})
  /\ listers' = [k \in Listers |->
                   IF Listed(k) THEN [listers[k] EXCEPT !.st = "running"]
                   ELSE listers[k]]
  /\ pc' = "wait1"
  /\ UNCHANGED <<chans, importOpen, handlersStarted, workers, emit,
                 importing, State, Scope>>

\* A mutant of RunWaitListing: Run does not wait for the counter.
RunWaitListing_NoWait ==
  /\ pc = "wait1"
  /\ pc' = "closeImport"
  /\ UNCHANGED listingVars

\* ic.waitGroup.Wait() returns: the counter is zero.
RunWaitListing ==
  /\ pc = "wait1"
  /\ counter = 0
  /\ pc' = "closeImport"
  /\ UNCHANGED listingVars

\* ic.closeImportChannels()
RunCloseImportChannels ==
  /\ pc = "closeImport"
  /\ importOpen' = FALSE
  /\ pc' = "checkScope"
  /\ UNCHANGED <<counter, chans, handlersStarted, listers, workers, emit,
                 importing, State, Scope>>

RunListing ==
  /\ \/ RunStartImportChannels
     \/ RunStartListing
     \/ RunWaitListing
     \/ RunCloseImportChannels
  /\ UNCHANGED <<retErr, services, incremental, updatedSinceStr,
                 notebooksFormat, dirState, genVars,
                 fnVars>>

(***************************************************************************)
(* Generation: blocks, import commands, the output of a previous run.      *)
(***************************************************************************)

\* How many I/O operations of the writers may fail in one run.
MaxFaults == 1

\* EXPORTER_RESOURCE_GENERATORS: the number of generation workers.
ResourceGenerators == 2

GenWorkers == 1..ResourceGenerators

\* generateBlockFullName of the block generated for a resource: its type
\* and labels (kind and name), one per resource here.
BlockName(r) == r

\* resource.ImportCommand: terraform import <kind>.<name> "<id>", as
\* <<block name, id>>.
ImportCommand(r) == <<BlockName(r), "id">>

NoCommand == <<>>

\* The target (kind and name) of an import command.
TargetOf(cmd) == cmd[1]

\* resourceWriteData of a resource: processSingleResource sets the import
\* command when r.Mode != "data" and the kind has an Importer.
WriteData(r) ==
  [ResourceBody |-> <<"resource">>, BlockName |-> BlockName(r),
   ImportCommand |-> ImportCommand(r)]

\* What a previous run left in <service>.tf: job x1 is no longer
\* discovered.
PriorFile(s) ==
  IF s = "jobs" THEN <<"j1", "x1">> ELSE <<"g1">>

\* The import commands a previous run left in import.sh: group g1 had
\* another id then (it was deleted and made again under the same name).
PriorImports == <<(<<"j1", "id">>), (<<"x1", "id">>), (<<"g1", "old-id">>)>>

\* A block of a file: its name and whether this run wrote it.
NewBlock(b) == <<b, "new">>
OldBlock(b) == <<b, "old">>

RECURSIVE OldBlocks(_)
OldBlocks(names) ==
  IF names = <<>> THEN <<>>
  ELSE <<OldBlock(Head(names))>> \o OldBlocks(Tail(names))

\* SelectSeq with the kept names mapped to old blocks: the blocks of the
\* existing file whose name is not among the newly written ones.
RECURSIVE KeptBlocks(_, _)
KeptBlocks(existing, newResources) ==
  IF existing = <<>> THEN <<>>
  ELSE (IF Head(existing) \in newResources THEN <<>>
        ELSE <<OldBlock(Head(existing))>>)
       \o KeptBlocks(Tail(existing), newResources)

\* A file that does not exist.
NoFile == [exists |-> FALSE, cmds |-> <<>>]
NoBlocksFile == [exists |-> FALSE, blocks |-> <<>>]

IdleWriter == [st |-> "init", cur |-> NoCommand, existing |-> <<>>,
               new |-> {}, ioerr |-> "none"]

\* No vars.tf.
NoVarsFile == [exists |-> FALSE, parses |-> TRUE, blocks |-> <<>>]

\* A generation worker that comes to no reference to a variable.
NoRefs == [todo |-> <<>>, idx |-> 1, writing |-> FALSE, seen |-> {}]

\* ic.variables is empty (newImportContext), no worker comes to a variable
\* and there is no vars.tf.
NoVariables ==
  /\ variables = {}
  /\ refs = [g \in GenWorkers |-> NoRefs]
  /\ priorVars = NoVarsFile
  /\ varsFile = NoVarsFile
  /\ varsState = "none"

InitPipeline ==
  /\ pc = "start"
  /\ retErr = ""
  /\ services \in {{}, AllServices}
  /\ incremental \in BOOLEAN
  /\ updatedSinceStr \in (IF incremental THEN TimeStrings ELSE {""})
  /\ notebooksFormat \in {"SOURCE", "XYZ"}
  /\ dirState \in DirStates
  /\ counter = 0
  /\ chans = [c \in Channels |-> <<>>]
  /\ importOpen = TRUE
  /\ handlersStarted = FALSE
  /\ listers = [k \in Listers |-> [st |-> "notStarted", idx |-> 1]]
  /\ workers = [w \in ImportWorkers |-> [st |-> "idle", r |-> NoRes, idx |-> 1]]
  /\ emit = [e \in Emitters |-> IdleEmit]
  /\ importing = [r \in Resources |-> "absent"]
  /\ State = <<>>
  /\ Scope = <<>>
  /\ genChans = "none"
  /\ submitted = 0
  /\ resourcesChan = <<>>
  /\ gens = [g \in GenWorkers |-> [st |-> "notStarted", r |-> NoRes]]
  /\ writerChan = [s \in AllServices |-> <<>>]
  /\ writers = [s \in AllServices |-> IdleWriter]
  /\ importChan = <<>>
  /\ agg = [st |-> "notStarted"]
  /\ shImports = {}
  \* the directory holds the output of a previous run, or nothing
  /\ IF dirState = "dir"
       THEN /\ sh = [exists |-> TRUE, cmds |-> PriorImports]
            /\ files = [s \in AllServices |->
                          [exists |-> PriorFile(s) # <<>>,
                           blocks |-> OldBlocks(PriorFile(s))]]
       ELSE /\ sh = NoFile
            /\ files = [s \in AllServices |-> NoBlocksFile]
  /\ shOpen = FALSE
  /\ touched = {}
  /\ faults = 0

Init ==
  /\ InitPipeline
  /\ call = NoCall
  /\ NoVariables

(***************************************************************************)
(* Run, from the end of listing on.                                        *)
(***************************************************************************)

\* A mutant of RunCheckScope: an empty Scope is not looked for.
RunCheckScope_NoCheck ==
  /\ pc = "checkScope"
  /\ pc' = "loadImports"
  /\ UNCHANGED <<retErr, shOpen, shImports, sh, touched, genChans, submitted,
                 gens, writers, agg>>

\* if ic.Scope.Len() == 0 { return fmt.Errorf("no resources to import") }
RunCheckScope ==
  /\ pc = "checkScope"
  /\ IF Len(Scope) = 0
       THEN Return("no resources to import")
       ELSE pc' = "loadImports" /\ UNCHANGED <<retErr, shOpen>>
  /\ UNCHANGED <<shImports, sh, touched, genChans, submitted, gens, writers,
                 agg>>

\* if ic.incremental: the "terraform import" lines of import.sh are put in
\* ic.shImports (nothing when the file cannot be opened).
RunLoadImports ==
  /\ pc = "loadImports"
  /\ shImports' = IF incremental /\ sh.exists
                    THEN {sh.cmds[i] : i \in 1..Len(sh.cmds)} ELSE {}
  /\ pc' = "openSh"
  /\ UNCHANGED <<retErr, shOpen, sh, touched, genChans, submitted, gens,
                 writers, agg>>

\* os.OpenFile(shFileName, O_CREATE|O_WRONLY|O_TRUNC): import.sh is
\* truncated and its header written, or Run returns the error.
RunOpenSh ==
  /\ pc = "openSh"
  /\ \/ Return("open error") /\ UNCHANGED <<sh, touched>>
     \/ /\ sh' = [exists |-> TRUE, cmds |-> <<>>]
        /\ shOpen' = TRUE
        /\ touched' = touched \cup {"import.sh"}
        /\ pc' = "generate"
        /\ UNCHANGED retErr
  /\ UNCHANGED <<shImports, genChans, submitted, gens, writers, agg>>

\* generateAndWriteResources: the channels are made, the aggregator, the
\* generation workers and a writer per service are started.
RunStartGeneration ==
  /\ pc = "generate"
  /\ genChans' = "open"
  /\ gens' = [g \in GenWorkers |-> [st |-> "idle", r |-> NoRes]]
  /\ writers' = [s \in AllServices |-> [IdleWriter EXCEPT !.st = "start"]]
  /\ agg' = [st |-> "idle"]
  /\ pc' = "submit"
  /\ UNCHANGED <<retErr, shOpen, shImports, sh, touched, submitted>>

RunAfterListing ==
  /\ \/ RunCheckScope
     \/ RunLoadImports
     \/ RunOpenSh
     \/ RunStartGeneration
  /\ UNCHANGED <<services, incremental, updatedSinceStr, notebooksFormat,
                 dirState, listingVars, resourcesChan, writerChan, importChan,
                 files, faults,
                 fnVars>>

\* The variables of the listing phase other than the counter.
listingRest == <<chans, importOpen, handlersStarted, listers, workers, emit,
                 importing, State, Scope>>

\* ic.Scope.Sorted(): the snapshot generateAndWriteResources submits.
Snapshot == Scope

\* The submit loop: ic.waitGroup.Add(1)
RunSubmitAdd ==
  /\ pc = "submit"
  /\ submitted < Len(Snapshot)
  /\ counter' = counter + 1
  /\ pc' = "submitSend"
  /\ UNCHANGED <<submitted, resourcesChan, genChans, retErr, shOpen, touched>>

\* The submit loop: resourcesChan <- r
RunSubmitSend ==
  /\ pc = "submitSend"
  /\ resourcesChan' = Append(resourcesChan, Snapshot[submitted + 1])
  /\ submitted' = submitted + 1
  /\ pc' = "submit"
  /\ UNCHANGED <<counter, genChans, retErr, shOpen, touched>>

\* The submit loop is over and Run goes on without waiting for the counter.
RunWaitGeneration_NoWait ==
  /\ pc = "submit"
  /\ submitted = Len(Snapshot)
  /\ pc' = "closeGen"
  /\ UNCHANGED <<counter, submitted, resourcesChan, genChans, retErr, shOpen,
                 touched>>

\* The submit loop is over and ic.waitGroup.Wait() returns.
RunWaitGeneration ==
  /\ pc = "submit"
  /\ submitted = Len(Snapshot)
  /\ counter = 0
  /\ pc' = "closeGen"
  /\ UNCHANGED <<counter, submitted, resourcesChan, genChans, retErr, shOpen,
                 touched>>

\* A mutant of RunCloseGeneration: the writers' channels are left open.
RunCloseGeneration_NoClose ==
  /\ pc = "closeGen"
  /\ pc' = "summary"
  /\ UNCHANGED <<counter, submitted, resourcesChan, genChans, retErr, shOpen,
                 touched>>

\* close(importChan); close(resourcesChan); close(ch) of every writer
RunCloseGeneration ==
  /\ pc = "closeGen"
  /\ genChans' = "closed"
  /\ pc' = "summary"
  /\ UNCHANGED <<counter, submitted, resourcesChan, retErr, shOpen, touched>>

\* generateVariables (no variable is registered), exporter-run-stats.json
\* and ignored_resources.txt are written; Run returns the error of writing
\* the statistics.
RunWriteSummary ==
  /\ pc = "summary"
  /\ \/ /\ touched' = touched \cup {"exporter-run-stats.json"}
        /\ Return("write error")
     \/ /\ touched' = touched \cup {"exporter-run-stats.json",
                                     "ignored_resources.txt"}
        /\ pc' = "fmt"
        /\ UNCHANGED <<retErr, shOpen>>
  /\ UNCHANGED <<counter, submitted, resourcesChan, genChans>>

\* terraform fmt (unless -noformat), then return nil.
RunFormatReturn ==
  /\ pc = "fmt"
  /\ \/ Return("nil")
     \/ Return("fmt error")
  /\ UNCHANGED <<counter, submitted, resourcesChan, genChans, touched>>

RunGeneration ==
  /\ \/ RunSubmitAdd
     \/ RunSubmitSend
     \/ RunWaitGeneration
     \/ RunCloseGeneration
     \/ RunWriteSummary
     \/ RunFormatReturn
  /\ UNCHANGED <<services, incremental, updatedSinceStr, notebooksFormat,
                 dirState, listingRest, gens, writerChan, writers, importChan,
                 agg, shImports, sh, files, faults,
                 fnVars>>

(***************************************************************************)
(* The generation workers: processSingleResource.                          *)
(***************************************************************************)

genRest == <<submitted, shImports, sh, shOpen, files, touched, genChans,
             faults>>

\* for r := range resourcesChan: one resource received.
GenRecv(g) ==
  /\ gens[g].st = "idle"
  /\ resourcesChan # <<>>
  /\ gens' = [gens EXCEPT ![g] = [st |-> "generate", r |-> Head(resourcesChan)]]
  /\ resourcesChan' = Tail(resourcesChan)
  /\ UNCHANGED <<counter, writerChan, writers, importChan, agg>>

\* The worker is at its range over resourcesChan, closed and drained: the
\* loop ends and the goroutine returns (not a step: nothing changes).
GenExited(g) ==
  /\ gens[g].st = "idle"
  /\ resourcesChan = <<>>
  /\ genChans = "closed"

\* The worker waits at its range over the open, empty resourcesChan.
GenBlocked(g) ==
  /\ gens[g].st = "idle"
  /\ resourcesChan = <<>>
  /\ genChans = "open"

(* What a resource is generated from: whether ir.Ignore holds, what a      *)
(* custom ir.Body does ("none" when the kind has none), and the fields of  *)
(* the schema that dataToHcl visits, each with its type and, for a list or *)
(* set of primitive values, the kinds of its elements.                     *)
Field(type, elems) == [Type |-> type, Elems |-> elems]

ResourceDatas ==
  {[ignore |-> i, body |-> b, fields |-> f] :
     i \in BOOLEAN,
     b \in {"none", "error", "empty", "block"},
     f \in {<<>>,
            <<Field("TypeString", <<>>), Field("TypeInt", <<>>)>>,
            <<Field("TypeBool", <<>>), Field("TypeInvalid", <<>>)>>,
            <<Field("TypeList", <<"string", "int">>)>>,
            <<Field("TypeSet", <<"string", "other">>)>>,
            <<Field("TypeMap", <<>>), Field("TypeFloat", <<>>)>>}}

\* readListFromData for a list of primitive values: a string or an int is
\* rendered, any other element is "unsupported primitive list".
RECURSIVE readListFromData(_)
readListFromData(rawList) ==
  IF rawList = <<>> THEN "nil"
  ELSE IF Head(rawList) \in {"string", "int"}
         THEN readListFromData(Tail(rawList))
         ELSE "error"

\* dataToHcl: the fields are rendered one after the other; a list or set
\* returns the error of readListFromData, a type outside the switch is
\* "unsupported schema type".
RECURSIVE dataToHcl(_)
dataToHcl(fields) ==
  IF fields = <<>> THEN "nil"
  ELSE LET as == Head(fields) IN
       CASE as.Type \in {"TypeString", "TypeBool", "TypeInt", "TypeFloat",
                         "TypeMap"} -> dataToHcl(Tail(fields))
         [] as.Type \in {"TypeSet", "TypeList"} ->
              IF readListFromData(as.Elems) = "error" THEN "error"
              ELSE dataToHcl(Tail(fields))
         [] OTHER -> "error"

\* processSingleResource: err after ir.Body, or after dataToHcl when the
\* kind has no custom body.
BodyErr(d) ==
  IF d.body # "none"
    THEN (IF d.body = "error" THEN "error" ELSE "nil")
    ELSE dataToHcl(d.fields)

\* processSingleResource: body.Blocks() at the test. A custom ir.Body
\* appends what it appends; without one the resource block is appended
\* before dataToHcl runs, so the body then holds a block.
BodyBlocks(d) ==
  IF d.body \in {"none", "block"} THEN <<"resource">> ELSE <<>>

\* The test of processSingleResource without len(body.Blocks()) > 0.
Generate_NoLenTest(d) ==
  IF d.ignore THEN "ignored"
  ELSE IF BodyErr(d) # "nil" THEN "error"
  ELSE "block"

\* The loop body of processSingleResource up to its test
\* err == nil && len(body.Blocks()) > 0: "block" when a block is to be
\* sent.
Generate(d) ==
  IF d.ignore THEN "ignored"
  ELSE IF BodyErr(d) # "nil" THEN "error"
  ELSE IF Len(BodyBlocks(d)) = 0 THEN "empty"
  ELSE "block"

\* What the generation of a resource can come to.
Outcomes == {Generate(d) : d \in ResourceDatas}

\* A mutant of GenDrop: the block of the dropped resource is sent anyway.
GenDrop_Sends(g) ==
  /\ gens[g].st = "generate"
  /\ writerChan' = [writerChan EXCEPT ![ServiceOf(KindOf(gens[g].r))] =
                      Append(@, WriteData(gens[g].r))]
  /\ gens' = [gens EXCEPT ![g] = [st |-> "idle", r |-> NoRes]]
  /\ counter' = counter - 1
  /\ UNCHANGED <<resourcesChan, writers, importChan, agg>>

\* A mutant of GenDrop: the dropped resource is not counted down.
GenDrop_NoDone(g) ==
  /\ gens[g].st = "generate"
  /\ gens' = [gens EXCEPT ![g] = [st |-> "idle", r |-> NoRes]]
  /\ UNCHANGED <<counter, resourcesChan, writerChan, writers, importChan, agg>>

\* The resource is ignored (ir.Ignore), or ir.Body / dataToHcl fails, or
\* the body holds no block: nothing is sent, ic.waitGroup.Done().
GenDrop(g) ==
  /\ gens[g].st = "generate"
  /\ Outcomes \ {"block"} # {}
  /\ gens' = [gens EXCEPT ![g] = [st |-> "idle", r |-> NoRes]]
  /\ counter' = counter - 1
  /\ UNCHANGED <<resourcesChan, writerChan, writers, importChan, agg>>

\* A block is generated and the writer of the service exists:
\* ic.waitGroup.Add(1)
GenAdd(g) ==
  /\ gens[g].st = "generate"
  /\ "block" \in Outcomes
  /\ gens' = [gens EXCEPT ![g].st = "send"]
  /\ counter' = counter + 1
  /\ UNCHANGED <<resourcesChan, writerChan, writers, importChan, agg>>

\* ch <- writeData
GenSend(g) ==
  /\ gens[g].st = "send"
  /\ writerChan' = [writerChan EXCEPT ![ServiceOf(KindOf(gens[g].r))] =
                      Append(@, WriteData(gens[g].r))]
  /\ gens' = [gens EXCEPT ![g].st = "fin"]
  /\ UNCHANGED <<counter, resourcesChan, writers, importChan, agg>>

\* The end of the loop body: ic.waitGroup.Done()
GenDone(g) ==
  /\ gens[g].st = "fin"
  /\ gens' = [gens EXCEPT ![g] = [st |-> "idle", r |-> NoRes]]
  /\ counter' = counter - 1
  /\ UNCHANGED <<resourcesChan, writerChan, writers, importChan, agg>>

GenStep ==
  /\ \E g \in GenWorkers :
        \/ GenRecv(g)
        \/ GenDrop(g)
        \/ GenAdd(g)
        \/ GenSend(g)
        \/ GenDone(g)
  /\ UNCHANGED <<runVars, listingRest, genRest,
                 fnVars>>

(***************************************************************************)
(* The writers: handleResourceWrite, one per service.                      *)
(***************************************************************************)

SeqToSet(q) == {q[i] : i \in 1..Len(q)}

\* The names of the blocks of a file (generateBlockFullName of each).
BlockNames(blocks) == [i \in 1..Len(blocks) |-> blocks[i][1]]

\* The start of handleResourceWrite: in an incremental run the existing
\* file is read and parsed (nothing is kept when that fails); then
\* os.Create truncates the file, or fails and the writer returns.
WriterStart(s) ==
  /\ writers[s].st = "start"
  /\ \/ /\ writers' = [writers EXCEPT ![s].st = "loop", ![s].existing =
                         IF incremental /\ files[s].exists
                           THEN BlockNames(files[s].blocks) ELSE <<>>]
        /\ files' = [files EXCEPT ![s] = [exists |-> TRUE, blocks |-> <<>>]]
        /\ touched' = touched \cup {s}
        /\ UNCHANGED faults
     \/ /\ faults < MaxFaults
        /\ incremental /\ files[s].exists
        /\ writers' = [writers EXCEPT ![s].st = "loop", ![s].ioerr = "read"]
        /\ files' = [files EXCEPT ![s] = [exists |-> TRUE, blocks |-> <<>>]]
        /\ touched' = touched \cup {s}
        /\ faults' = faults + 1
     \/ /\ faults < MaxFaults
        /\ writers' = [writers EXCEPT ![s].st = "failed", ![s].ioerr = "create"]
        /\ faults' = faults + 1
        /\ UNCHANGED <<files, touched>>
  /\ UNCHANGED <<counter, writerChan, importChan>>

\* A writer that sends the import command on whether or not the body was
\* written.
WriterRecv_CommandAnyway(s) ==
  /\ writers[s].st = "loop"
  /\ writerChan[s] # <<>>
  /\ LET f == Head(writerChan[s]) IN
     \/ /\ files' = [files EXCEPT ![s].blocks = Append(@, NewBlock(f.BlockName))]
        /\ writers' = [writers EXCEPT
                         ![s].new = @ \cup {f.BlockName},
                         ![s].cur = f.ImportCommand,
                         ![s].st = "add"]
        /\ UNCHANGED faults
     \/ /\ faults < MaxFaults
        /\ writers' = [writers EXCEPT ![s].st = "add", ![s].ioerr = "write",
                                      ![s].cur = f.ImportCommand]
        /\ faults' = faults + 1
        /\ UNCHANGED files
  /\ writerChan' = [writerChan EXCEPT ![s] = Tail(@)]
  /\ UNCHANGED <<counter, importChan, touched>>

\* for f := range ch: tf.WriteString(f.ResourceBody); when it succeeds the
\* block name is recorded in newResources.
WriterRecv(s) ==
  /\ writers[s].st = "loop"
  /\ writerChan[s] # <<>>
  /\ LET f == Head(writerChan[s]) IN
     \/ /\ files' = [files EXCEPT ![s].blocks = Append(@, NewBlock(f.BlockName))]
        /\ writers' = [writers EXCEPT
                         ![s].new = @ \cup {f.BlockName},
                         ![s].cur = f.ImportCommand,
                         ![s].st = IF f.ImportCommand # NoCommand
                                     THEN "add" ELSE "fin"]
        /\ UNCHANGED faults
     \/ /\ faults < MaxFaults
        /\ writers' = [writers EXCEPT ![s].st = "fin", ![s].ioerr = "write"]
        /\ faults' = faults + 1
        /\ UNCHANGED files
  /\ writerChan' = [writerChan EXCEPT ![s] = Tail(@)]
  /\ UNCHANGED <<counter, importChan, touched>>

\* A writer that sends the import command without ic.waitGroup.Add(1).
WriterAdd_NoAdd(s) ==
  /\ writers[s].st = "add"
  /\ writers' = [writers EXCEPT ![s].st = "send"]
  /\ UNCHANGED <<counter, writerChan, importChan, files, touched, faults>>

\* if f.ImportCommand != "": ic.waitGroup.Add(1)
WriterAdd(s) ==
  /\ writers[s].st = "add"
  /\ counter' = counter + 1
  /\ writers' = [writers EXCEPT ![s].st = "send"]
  /\ UNCHANGED <<writerChan, importChan, files, touched, faults>>

\* importChan <- f.ImportCommand
WriterSend(s) ==
  /\ writers[s].st = "send"
  /\ importChan' = Append(importChan, writers[s].cur)
  /\ writers' = [writers EXCEPT ![s].st = "fin"]
  /\ UNCHANGED <<counter, writerChan, files, touched, faults>>

\* The end of the loop body: ic.waitGroup.Done()
WriterDone(s) ==
  /\ writers[s].st = "fin"
  /\ counter' = counter - 1
  /\ writers' = [writers EXCEPT ![s].st = "loop", ![s].cur = NoCommand]
  /\ UNCHANGED <<writerChan, importChan, files, touched, faults>>

\* A mutant of WriterFinish: a file without a resource is not removed.
WriterFinish_NoRemove(s) ==
  /\ writers[s].st = "loop"
  /\ writerChan[s] = <<>>
  /\ genChans = "closed"
  /\ LET kept == IF incremental
                   THEN KeptBlocks(writers[s].existing, writers[s].new)
                   ELSE <<>> IN
     files' = [files EXCEPT ![s].blocks = @ \o kept]
  /\ writers' = [writers EXCEPT ![s].st = "exited"]
  /\ UNCHANGED <<counter, writerChan, importChan, touched, faults>>

\* A writer that puts the blocks it keeps of the existing file before the
\* blocks it wrote.
WriterFinish_PriorFirst(s) ==
  /\ writers[s].st = "loop"
  /\ writerChan[s] = <<>>
  /\ genChans = "closed"
  /\ LET kept == IF incremental
                   THEN KeptBlocks(writers[s].existing, writers[s].new)
                   ELSE <<>>
         numResources == Cardinality(writers[s].new) + Len(kept) IN
     files' = [files EXCEPT ![s] =
                 IF numResources = 0 THEN NoBlocksFile
                 ELSE [exists |-> TRUE, blocks |-> kept \o files[s].blocks]]
  /\ writers' = [writers EXCEPT ![s].st = "exited"]
  /\ UNCHANGED <<counter, writerChan, importChan, touched, faults>>

\* The channel is closed and drained. In an incremental run the blocks of
\* the existing file that were not written anew are appended (or are lost
\* when that write fails); the file is closed, and removed when it holds no
\* resource.
WriterFinish(s) ==
  /\ writers[s].st = "loop"
  /\ writerChan[s] = <<>>
  /\ genChans = "closed"
  /\ LET kept == IF incremental
                   THEN KeptBlocks(writers[s].existing, writers[s].new)
                   ELSE <<>>
         numResources == Cardinality(writers[s].new) + Len(kept) IN
     \/ /\ files' = [files EXCEPT ![s] =
                       IF numResources = 0 THEN NoBlocksFile
                       ELSE [exists |-> TRUE, blocks |-> files[s].blocks \o kept]]
        /\ writers' = [writers EXCEPT ![s].st = "exited"]
        /\ UNCHANGED faults
     \/ /\ faults < MaxFaults
        /\ kept # <<>>
        /\ faults' = faults + 1
        /\ writers' = [writers EXCEPT ![s].st = "exited", ![s].ioerr = "merge"]
        /\ UNCHANGED files
  /\ UNCHANGED <<counter, writerChan, importChan, touched>>

\* A step of the writer of service s.
Writer(s) ==
  /\ \/ WriterStart(s)
     \/ WriterRecv(s)
     \/ WriterAdd(s)
     \/ WriterSend(s)
     \/ WriterDone(s)
     \/ WriterFinish(s)
  /\ UNCHANGED <<runVars, listingRest, submitted, resourcesChan, gens, agg,
                 shImports, sh, shOpen, genChans,
                 fnVars>>

WriterStep == \E s \in AllServices : Writer(s)

(***************************************************************************)
(* The import aggregator: writeImports.                                    *)
(***************************************************************************)

\* The orders in which a range over a map may visit its keys.
Orders(S) == {q \in [1..Cardinality(S) -> S] : SeqToSet(q) = S}

\* sh.WriteString: the lines are appended while import.sh is open; the
\* error of writing to the closed file is not looked at.
ShWrite(cmds) == IF shOpen THEN [sh EXCEPT !.cmds = @ \o cmds] ELSE sh

\* for importCommand := range importChan: the command is written and
\* deleted from ic.shImports.
AggRecv ==
  /\ agg.st = "idle"
  /\ importChan # <<>>
  /\ sh' = ShWrite(<<Head(importChan)>>)
  /\ shImports' = shImports \ {Head(importChan)}
  /\ importChan' = Tail(importChan)
  /\ agg' = [st |-> "fin"]
  /\ UNCHANGED counter

\* The end of the loop body: ic.waitGroup.Done()
AggDone ==
  /\ agg.st = "fin"
  /\ counter' = counter - 1
  /\ agg' = [st |-> "idle"]
  /\ UNCHANGED <<importChan, shImports, sh>>

\* importChan is closed and drained: the rest of ic.shImports is written,
\* in the order of the map's range.
AggFinish ==
  /\ agg.st = "idle"
  /\ importChan = <<>>
  /\ genChans = "closed"
  /\ \E q \in Orders(shImports) : sh' = ShWrite(q)
  /\ agg' = [st |-> "exited"]
  /\ UNCHANGED <<counter, importChan, shImports>>

AggStep ==
  /\ \/ AggRecv
     \/ AggDone
     \/ AggFinish
  /\ UNCHANGED <<runVars, listingRest, submitted, resourcesChan, gens,
                 writerChan, writers, shOpen, files, touched, genChans, faults,
                 fnVars>>

(***************************************************************************)
(* The specification.                                                      *)
(***************************************************************************)

EmitStep ==
  /\ \E e \in Emitters :
        \/ EmitCheck(e)
        \/ EmitMark(e)
        \/ EmitSend(e)
  /\ UNCHANGED <<runVars, genVars, fnVars>>

ListerStep ==
  /\ \E k \in Listers :
        \/ ListerEmit(k)
        \/ ListerDone(k)
        \/ ListerFail(k)
  /\ UNCHANGED <<runVars, genVars, fnVars>>

WorkerStep ==
  /\ \E w \in ImportWorkers :
        \/ WorkerRecv(w)
        \/ ImportFail(w)
        \/ ImportEmit(w)
        \/ AddCheck(w)
        \/ AddMark(w)
        \/ AddAppend(w)
        \/ AddNilState(w)
        \/ ImportDone(w)
  /\ UNCHANGED <<runVars, genVars, fnVars>>

Next ==
  \/ RunSetup
  \/ RunListing
  \/ RunAfterListing
  \/ RunGeneration
  \/ EmitStep
  \/ ListerStep
  \/ WorkerStep
  \/ GenStep
  \/ WriterStep
  \/ AggStep

Spec == Init /\ [][Next]_vars

(***************************************************************************)
(* Strings, as sequences of one-character strings.                         *)
(***************************************************************************)

UpperCase == <<"A", "B", "C", "D", "E", "F", "G", "H", "I", "J", "K", "L",
    "M", "N", "O", "P", "Q", "R", "S", "T", "U", "V", "W", "X", "Y", "Z">>

LowerCase == <<"a", "b", "c", "d", "e", "f", "g", "h", "i", "j", "k", "l",
    "m", "n", "o", "p", "q", "r", "s", "t", "u", "v", "w", "x", "y", "z">>

\* strings.ToLower, character by character.
ToLowerChar(c) ==
  IF \E i \in DOMAIN UpperCase : UpperCase[i] = c
    THEN LowerCase[CHOOSE i \in DOMAIN UpperCase : UpperCase[i] = c]
    ELSE c

ToLower(s) == [i \in 1..Len(s) |-> ToLowerChar(s[i])]

\* strings.HasPrefix.
HasPrefix(s, prefix) ==
  Len(prefix) <= Len(s) /\ SubSeq(s, 1, Len(prefix)) = prefix

HasSuffix(s, suffix) ==
  Len(suffix) <= Len(s)
    /\ SubSeq(s, Len(s) - Len(suffix) + 1, Len(s)) = suffix

\* s[lo:hi], with the offsets of Go.
Slice(s, lo, hi) == SubSeq(s, lo + 1, hi)

\* strings.ReplaceAll(s, old, new) for a one-character old.
RECURSIVE ReplaceAll(_, _, _)
ReplaceAll(s, old, new) ==
  IF s = <<>> THEN <<>>
  ELSE (IF Head(s) = old THEN new ELSE <<Head(s)>>)
         \o ReplaceAll(Tail(s), old, new)

(***************************************************************************)
(* Reference resolution: Find and getTraversalTokens over the State        *)
(* Approximation. In the specification of the resolver, State holds whole  *)
(* resource approximations, appended in the order in which the concurrent  *)
(* import workers reach ic.Add.                                            *)
(***************************************************************************)

MatchExact == "exact"
MatchDefault == ""
MatchCaseInsensitive == "caseinsensitive"
MatchPrefix == "prefix"
MatchRegexp == "regexp"

\* reference.MatchTypeValue and reference.MatchAttribute.
MatchTypeValue(ref) ==
  IF ref.MatchType = MatchDefault THEN MatchExact ELSE ref.MatchType

MatchAttribute(ref) == IF ref.Match = "" THEN "id" ELSE ref.Match

\* A resourceApproximation with its one instance; Attributes is defined on
\* the attributes the instance has.
Approximation(mode, type, name, attrs) ==
  [Mode |-> mode, Type |-> type, Name |-> name, Attributes |-> attrs]

Attrs(id, displayName) ==
  [a \in {"id", "display_name"} |->
     IF a = "id" THEN id ELSE displayName]

OnlyId(id) == [a \in {"id"} |-> id]

\* The approximations that the import workers may add: two groups whose
\* names are prefixes of one another, two groups of the same name, a data
\* source whose name differs in case only, a group without the attribute,
\* and a job.
Candidates ==
  {Approximation("managed", "databricks_group", "a", Attrs(<<"1">>, <<"f",
    "o", "o">>)),
   Approximation("managed", "databricks_group", "b", Attrs(<<"2">>, <<"f",
    "o">>)),
   Approximation("managed", "databricks_group", "a2", Attrs(<<"3">>, <<"f",
    "o", "o">>)),
   Approximation("data", "databricks_group", "c", Attrs(<<"4">>, <<"F", "o",
    "o">>)),
   Approximation("managed", "databricks_group", "d", OnlyId(<<"5">>)),
   Approximation("managed", "databricks_job", "e", Attrs(<<"6">>, <<"f", "o",
    "o">>))}

MaxState == 3

\* The compiled pattern of a reference: ^pre(.*)post$ with one capture
\* group, ^pre.*post$ with none, ^(pre)(.*)post$ with two; or no pattern.
NoRegexp == [nil |-> TRUE]

Regexps ==
  {[pre |-> <<"x", "-">>, groups |-> 1, post |-> <<"-", "y">>],
   [pre |-> <<"x", "-">>, groups |-> 0, post |-> <<"-", "y">>],
   [pre |-> <<"f", "o">>, groups |-> 2, post |-> <<>>]}

References ==
  {[Resource |-> "databricks_group", Match |-> "display_name",
    MatchType |-> t, Regexp |-> NoRegexp] :
     t \in {MatchExact, MatchDefault, MatchCaseInsensitive, MatchPrefix,
            MatchRegexp}}
  \cup
  {[Resource |-> "databricks_group", Match |-> "display_name",
    MatchType |-> MatchRegexp, Regexp |-> re] : re \in Regexps}

Values ==
  {<<"f", "o", "o">>, <<"F", "O", "O">>, <<"f", "o", "o", "-", "s", "u", "f",
    "f", "i", "x">>, <<"f", "o", "o", "\"", "x">>, <<"b", "a", "r">>, <<"x",
    "-", "f", "o", "o", "-", "y">>, <<"x", "-", "b", "a", "r", "-", "y">>}

\* regexp.FindStringSubmatchIndex for the patterns above: no indices
\* without a match, else the offsets of the match and of each group.
RegexpMatches(re, s) ==
  /\ HasPrefix(s, re.pre)
  /\ HasSuffix(s, re.post)
  /\ Len(re.pre) + Len(re.post) <= Len(s)

FindStringSubmatchIndex(re, s) ==
  IF ~RegexpMatches(re, s) THEN <<>>
  ELSE LET a == Len(re.pre)
           b == Len(s) - Len(re.post) IN
       CASE re.groups = 0 -> <<0, Len(s)>>
         [] re.groups = 1 -> <<0, Len(s), a, b>>
         [] re.groups = 2 -> <<0, Len(s), 0, a, a, b>>

\* regexp.FindStringSubmatch: the match and the text of each group.
FindStringSubmatch(re, s) ==
  LET indices == FindStringSubmatchIndex(re, s) IN
  [i \in 1..(Len(indices) \div 2) |->
     Slice(s, indices[2 * i - 1], indices[2 * i])]

\* A mutant of StateGet: the index is not keyed by the kind.
StateGet_AnyKind(state, kind, attr, value) ==
  {sr \in SeqToSet(state) :
     attr \in DOMAIN sr.Attributes /\ sr.Attributes[attr] = value}

\* ic.State.Get(kind, attr, value): the approximations of the kind whose
\* attribute has the value; Get returns one of them, or nil when the set
\* is empty.
StateGet(state, kind, attr, value) ==
  {sr \in SeqToSet(state) :
     /\ sr.Type = kind
     /\ attr \in DOMAIN sr.Attributes
     /\ sr.Attributes[attr] = value}

\* *ic.State.Resources(kind): the approximations of the kind, in the order
\* of their Append.
RECURSIVE StateResources(_, _)
StateResources(state, kind) ==
  IF state = <<>> THEN <<>>
  ELSE (IF Head(state).Type = kind THEN <<Head(state)>> ELSE <<>>)
         \o StateResources(Tail(state), kind)

NoTraversal == <<>>

genTraversalTokens(sr, pick) ==
  IF sr.Mode = "data"
    THEN <<"data", sr.Type, sr.Name, pick>>
    ELSE <<sr.Type, sr.Name, pick>>

NotFound == [attrValue |-> <<>>, traversal |-> NoTraversal]

\* The loop of Find over the instances: the first that matches wins.
RECURSIVE FindScan(_, _, _, _, _)
FindScan(srs, r, pick, ref, matchValue) ==
  IF srs = <<>> THEN NotFound
  ELSE LET sr == Head(srs) IN
       IF r.Attribute \notin DOMAIN sr.Attributes
         THEN FindScan(Tail(srs), r, pick, ref, matchValue)
         ELSE LET strValue == sr.Attributes[r.Attribute]
                  matched ==
                    CASE ref.MatchType = MatchCaseInsensitive ->
                           ToLower(strValue) = matchValue
                      [] ref.MatchType = MatchPrefix ->
                           HasPrefix(r.Value, strValue)
                      [] OTHER -> FALSE
              IN IF matched
                   THEN [attrValue |-> strValue,
                         traversal |-> genTraversalTokens(sr, pick)]
                   ELSE FindScan(Tail(srs), r, pick, ref, matchValue)

\* A mutant of MatchValue: the value is lowered for every policy.
MatchValue_Lowered(ref, r) ==
  IF ref.MatchType = MatchRegexp
    THEN FindStringSubmatch(ref.Regexp, r.Value)[2]
    ELSE ToLower(r.Value)

\* matchValue of Find, once the pattern of a regexp reference has matched:
\* the first capture group, the lowered value, or the value.
MatchValue(ref, r) ==
  CASE ref.MatchType = MatchRegexp ->
         FindStringSubmatch(ref.Regexp, r.Value)[2]
    [] ref.MatchType = MatchCaseInsensitive -> ToLower(r.Value)
    [] ref.MatchType \in {MatchExact, MatchDefault} -> r.Value
    [] OTHER -> <<>>

\* ic.Find: the results it can return, one for each approximation that
\* the direct lookup can return.
Find(state, r, pick, ref) ==
  IF ref.MatchType = MatchRegexp /\ ref.Regexp = NoRegexp THEN {NotFound}
  ELSE IF ref.MatchType = MatchRegexp
            /\ Len(FindStringSubmatch(ref.Regexp, r.Value)) < 2
    THEN {NotFound}
  ELSE
    LET matchValue == MatchValue(ref, r)
        lookup == ref.MatchType \in {MatchExact, MatchDefault, MatchRegexp,
                                     MatchCaseInsensitive}
        got == StateGet(state, r.Resource, r.Attribute, matchValue)
    IN IF lookup /\ got # {}
         THEN {[attrValue |-> matchValue,
                traversal |-> genTraversalTokens(sr, pick)] : sr \in got}
       ELSE IF lookup /\ ref.MatchType # MatchCaseInsensitive
         THEN {NotFound}
       ELSE {FindScan(StateResources(state, r.Resource), r, pick, ref,
                      matchValue)}

maybeAddQuoteCharacter(s) ==
  ReplaceAll(ReplaceAll(s, "\\", <<"\\", "\\">>), "\"", <<"\\", "\"">>)

Token(type, bytes) == [Type |-> type, Bytes |-> bytes]

\* hclwrite.TokensForTraversal: the names of the traversal, with dots.
TokensForTraversal(traversal) ==
  [i \in 1..(2 * Len(traversal) - 1) |->
     IF i % 2 = 1
       THEN Token("TokenIdent", <<traversal[(i + 1) \div 2]>>)
       ELSE Token("TokenDot", <<".">>)]

NoTokens == <<>>

\* A mutant of Rest: the whole value is kept as the literal.
Rest_WholeValue(value, attrValue) == value

\* rest := value[len(attrValue):]
Rest(value, attrValue) == Slice(value, Len(attrValue), Len(value))

\* A mutant of OneGroup: any number of capture groups is accepted.
OneGroup_AnyGroups(indices) == Len(indices) >= 4

\* len(indices) == 4: the match and exactly one capture group.
OneGroup(indices) == Len(indices) = 4

\* The hybrid expression of a prefix match.
PrefixTokens(traversal, rest) ==
  <<Token("TokenOQuote", <<"\"", "$", "{">>)>>
    \o TokensForTraversal(traversal)
    \o <<Token("TokenCQuote", <<"}">>),
         Token("TokenQuotedLit", maybeAddQuoteCharacter(rest)),
         Token("TokenCQuote", <<"\"">>)>>

\* The hybrid expression of a regexp match.
RegexpTokens(before, traversal, after) ==
  <<Token("TokenOQuote", <<"\"">>),
    Token("TokenQuotedLit", maybeAddQuoteCharacter(before)),
    Token("TokenOQuote", <<"$", "{">>)>>
    \o TokensForTraversal(traversal)
    \o <<Token("TokenCQuote", <<"}">>),
         Token("TokenQuotedLit", maybeAddQuoteCharacter(after)),
         Token("TokenCQuote", <<"\"">>)>>

\* ic.getTraversalTokens, given what its call of ic.Find returned.
getTraversalTokens(ref, value, found) ==
  LET matchType == MatchTypeValue(ref) IN
  IF found.traversal = NoTraversal THEN NoTokens
  ELSE CASE matchType \in {MatchExact, MatchDefault, MatchCaseInsensitive} ->
              TokensForTraversal(found.traversal)
         [] matchType = MatchPrefix ->
              PrefixTokens(found.traversal, Rest(value, found.attrValue))
         [] matchType = MatchRegexp ->
              LET indices == FindStringSubmatchIndex(ref.Regexp, value) IN
              IF OneGroup(indices)
                THEN RegexpTokens(Slice(value, 0, indices[3]),
                                  found.traversal,
                                  Slice(value, indices[4], Len(value)))
                ELSE NoTokens
         [] OTHER -> NoTokens

\* The resource that getTraversalTokens hands to ic.Find.
FindArg(ref, value) ==
  [Resource |-> ref.Resource, Attribute |-> MatchAttribute(ref),
   Value |-> value]

\* The calls of getTraversalTokens that are examined.
ResolveCalls ==
  {[op |-> "getTraversalTokens", ref |-> ref, value |-> value,
    done |-> FALSE, found |-> NotFound, tokens |-> NoTokens] :
     ref \in References, value \in Values}

\* A run that has not started, with fixed settings: the state in which a
\* function is examined on its own.
InitIdle ==
  /\ InitPipeline
  /\ NoVariables
  /\ services = AllServices
  /\ ~incremental
  /\ notebooksFormat = "SOURCE"
  /\ dirState = "missing"

InitResolve ==
  /\ InitIdle
  /\ call \in ResolveCalls

\* ic.Add of an import worker: ic.State.Append of its approximation.
StateAppend(sr) ==
  /\ ~call.done
  /\ Len(State) < MaxState
  /\ sr \notin SeqToSet(State)
  /\ State' = Append(State, sr)
  /\ UNCHANGED <<runVars, genVars, counter, chans, importOpen,
                 handlersStarted, listers, workers, emit, importing, Scope,
                 call, varVars>>

\* The generation of a block calls ic.getTraversalTokens, which calls
\* ic.Find on the State as it is.
GetTraversalTokens ==
  /\ ~call.done
  /\ \E found \in Find(State, FindArg(call.ref, call.value),
                       MatchAttribute(call.ref), call.ref) :
       call' = [call EXCEPT !.done = TRUE,
                            !.found = found,
                            !.tokens = getTraversalTokens(call.ref, call.value,
                                                          found)]
  /\ UNCHANGED <<runVars, listingVars, genVars, varVars>>

NextResolve ==
  \/ \E sr \in Candidates : StateAppend(sr)
  \/ GetTraversalTokens

SpecResolve == InitResolve /\ [][NextResolve]_vars

(***************************************************************************)
(* ResourceName.                                                           *)
(***************************************************************************)

Digits == {"0", "1", "2", "3", "4", "5", "6", "7", "8", "9"}

HexDigits == Digits \cup {"a", "b", "c", "d", "e", "f"}

WordChars == Digits \cup SeqToSet(UpperCase) \cup SeqToSet(LowerCase) \cup {"_"}

\* A character class of a pattern: the characters it holds, or with neg
\* the characters it does not hold.
Class(chars) == [neg |-> FALSE, chars |-> chars]

NotClass(chars) == [neg |-> TRUE, chars |-> chars]

InClass(c, class) ==
  IF class.neg THEN c \notin class.chars ELSE c \in class.chars

Rep(class, n) == [i \in 1..n |-> class]

\* A pattern is a sequence of classes, one character each, or a run of at
\* least min characters of one class.
Fixed(classes) == [type |-> "fixed", classes |-> classes]

Run(class, min) == [type |-> "run", class |-> class, min |-> min]

\* ic.nameFixes: a UUID with its separator, the separators, the characters
\* outside words, runs of underscores.
nameFixes ==
  <<[Regex |-> Fixed(Rep(Class(HexDigits), 8) \o <<Class({"_", "-"})>>
                     \o Rep(Class(HexDigits), 4) \o <<Class({"_", "-"})>>
                     \o Rep(Class(HexDigits), 4) \o <<Class({"_", "-"})>>
                     \o Rep(Class(HexDigits), 4) \o <<Class({"_", "-"})>>
                     \o Rep(Class(HexDigits), 12) \o <<Class({"_", "-"})>>),
     Replacement |-> <<>>],
    [Regex |-> Fixed(<<Class({"-", " ", "\t", "\n", "\f", "\r", ".", "|"})>>),
     Replacement |-> <<"_">>],
    [Regex |-> Run(NotClass(WordChars), 1),
     Replacement |-> <<"_">>],
    [Regex |-> Run(Class({"_"}), 2),
     Replacement |-> <<"_">>]>>

\* The length of the match of the pattern at the start of s, 0 for none
\* (no pattern here matches the empty string).
RECURSIVE RunLength(_, _)
RunLength(s, class) ==
  IF s = <<>> \/ ~InClass(Head(s), class) THEN 0
  ELSE 1 + RunLength(Tail(s), class)

MatchLength(regex, s) ==
  IF regex.type = "fixed"
    THEN IF /\ Len(regex.classes) <= Len(s)
            /\ \A i \in DOMAIN regex.classes : InClass(s[i], regex.classes[i])
           THEN Len(regex.classes)
           ELSE 0
    ELSE IF RunLength(s, regex.class) >= regex.min
           THEN RunLength(s, regex.class)
           ELSE 0

\* x.Regex.ReplaceAllString(s, x.Replacement): the matches from left to
\* right, without overlap.
RECURSIVE ReplaceAllString(_, _, _)
ReplaceAllString(regex, s, replacement) ==
  IF s = <<>> THEN <<>>
  ELSE LET n == MatchLength(regex, s) IN
       IF n > 0
         THEN replacement
                \o ReplaceAllString(regex, SubSeq(s, n + 1, Len(s)),
                                    replacement)
         ELSE <<Head(s)>> \o ReplaceAllString(regex, Tail(s), replacement)

\* ic.regexFix.
RECURSIVE regexFix(_, _)
regexFix(s, fixes) ==
  IF fixes = <<>> THEN s
  ELSE regexFix(ReplaceAllString(Head(fixes).Regex, s,
                                 Head(fixes).Replacement),
                Tail(fixes))

\* md5.Sum printed with %x, for the strings that are hashed here.
Md5Table ==
  {<<<<>>,
     <<"d", "4", "1", "d", "8", "c", "d", "9", "8", "f", "0", "0", "b", "2",
       "0", "4", "e", "9", "8", "0", "0", "9", "9", "8", "e", "c", "f", "8",
       "4", "2", "7", "e">>>>,
   <<<<"0", "A">>,
     <<"3", "e", "e", "7", "4", "0", "0", "5", "e", "9", "1", "6", "5", "b",
       "a", "c", "4", "4", "9", "d", "c", "b", "e", "7", "2", "2", "9", "5",
       "1", "c", "e", "0">>>>,
   <<<<"0", "a">>,
     <<"e", "9", "9", "b", "b", "3", "3", "7", "2", "7", "d", "3", "3", "8",
       "3", "1", "4", "9", "1", "2", "e", "8", "6", "f", "b", "d", "e", "c",
       "8", "7", "a", "f">>>>,
   <<<<"1", "B">>,
     <<"a", "e", "a", "f", "6", "7", "9", "1", "5", "b", "9", "7", "d", "3",
       "6", "0", "e", "4", "d", "2", "6", "f", "0", "6", "5", "9", "d", "d",
       "9", "b", "2", "a">>>>,
   <<<<"1", "b">>,
     <<"a", "3", "5", "a", "e", "a", "6", "0", "f", "e", "0", "9", "7", "c",
       "8", "8", "5", "5", "6", "8", "b", "a", "b", "b", "4", "8", "e", "e",
       "7", "d", "1", "e">>>>,
   <<<<"4", "2">>,
     <<"a", "1", "d", "0", "c", "6", "e", "8", "3", "f", "0", "2", "7", "3",
       "2", "7", "d", "8", "4", "6", "1", "0", "6", "3", "f", "4", "a", "c",
       "5", "8", "a", "6">>>>,
   <<<<"7", "F">>,
     <<"e", "0", "f", "b", "2", "9", "c", "2", "7", "7", "3", "5", "1", "b",
       "d", "e", "d", "7", "c", "7", "5", "9", "1", "a", "7", "a", "7", "e",
       "6", "6", "9", "f">>>>,
   <<<<"7", "f">>,
     <<"c", "d", "d", "3", "e", "4", "e", "8", "8", "a", "e", "5", "c", "b",
       "6", "6", "9", "d", "d", "3", "4", "6", "5", "6", "5", "f", "6", "8",
       "a", "1", "6", "0">>>>,
   <<<<"9", "7", "2", "1", "4", "3", "1", "b", "_", "b", "c", "d", "3", "_",
       "4", "5", "2", "6", "_", "b", "9", "0", "f", "_", "f", "5", "d", "e",
       "2", "b", "e", "f", "e", "c", "8", "c", "_", "8", "7", "3", "7", "7",
       "9", "8", "1", "9", "3">>,
     <<"7", "3", "2", "2", "b", "0", "5", "8", "6", "7", "8", "f", "b", "8",
       "c", "4", "b", "5", "c", "4", "6", "a", "c", "8", "2", "7", "c", "0",
       "8", "1", "1", "4">>>>,
   <<<<"9", "7", "2", "1", "4", "3", "1", "b", "_", "b", "c", "d", "3", "_",
       "4", "5", "2", "6", "_", "b", "9", "0", "f", "_", "f", "5", "d", "e",
       "2", "b", "e", "f", "e", "c", "8", "c", "|", "8", "7", "3", "7", "7",
       "9", "8", "1", "9", "3">>,
     <<"5", "6", "c", "d", "e", "0", "f", "5", "e", "d", "a", "c", "c", "8",
       "4", "2", "0", "1", "5", "8", "d", "c", "a", "0", "5", "c", "d", "d",
       "2", "3", "4", "9">>>>}

Md5Hex(s) == (CHOOSE p \in Md5Table : p[1] = s)[2]

\* The resources and prefixes ResourceName is examined on: r.Name, the
\* name that Importables[r.Resource].Name gives from r.Data ("" also when
\* there is no such function), and r.ID.
ResourceNames ==
  {<<>>,
   <<"0", "A">>,
   <<"0", "a">>,
   <<"G", "e", "n", "e", "r", "a", "l", " ", "P", "o", "l", "i", "c", "y",
       " ", "-", " ", "A", "l", "l", " ", "U", "s", "e", "r", "s">>,
   <<"9", "7", "2", "1", "4", "3", "1", "b", "_", "b", "c", "d", "3", "_",
       "4", "5", "2", "6", "_", "b", "9", "0", "f", "_", "f", "5", "d", "e",
       "2", "b", "e", "f", "e", "c", "8", "c", "|", "8", "7", "3", "7", "7",
       "9", "8", "1", "9", "3">>,
   <<"9", "7", "2", "1", "4", "3", "1", "B", "_", "B", "C", "D", "3", "_",
       "4", "5", "2", "6", "_", "B", "9", "0", "F", "_", "F", "5", "D", "E",
       "2", "B", "E", "F", "E", "C", "8", "C", "-">>,
   <<"9", "7", "2", "1", "4", "3", "1", "b", "_", "b", "c", "d", "3", "_",
       "4", "5", "2", "6", "_", "b", "9", "0", "f", "_", "f", "5", "d", "e",
       "2", "b", "e", "f", "e", "c", "8", "c", "-">>,
   <<"#">>,
   <<"9", "7", "2", "1", "4", "3", "1", "b", "_", "b", "c", "d", "3", "_",
       "4", "5", "2", "6", "_", "b", "9", "0", "f", "_", "f", "5", "d", "e",
       "2", "b", "e", "f", "e", "c", "8", "c", "-", "d", "b", "u", "t", "i",
       "l", "s", "_", "e", "x", "t", "e", "n", "s", "i", "o", "n", "s", "_",
       "2", "_", "1", "1", "_", "0", "_", "0", "_", "1", "-", "1", "8", "d",
       "c", "8", ".", "j", "a", "r">>}

DataNames == {<<>>, <<"1", "B">>}

ResourceIDs == {<<>>, <<"4", "2">>, <<"7", "F">>}

Prefixes == {<<>>, <<"p", "-">>}

ResourceInputs ==
  {[Name |-> n, DataName |-> d, ID |-> i] :
     n \in ResourceNames, d \in DataNames, i \in ResourceIDs}

\* The name before ic.prefix is put in front.
DerivedName(r) ==
  IF r.Name # <<>> THEN r.Name
  ELSE IF r.DataName # <<>> THEN r.DataName
  ELSE r.ID

\* name after strings.ToLower and ic.regexFix.
Normalized(r, prefix) ==
  regexFix(ToLower(prefix \o DerivedName(r)), nameFixes)

\* The name is empty or starts with a digit.
TakesFallback(name) == name = <<>> \/ name[1] \in Digits

\* A mutant of Hashed: the normalized name is hashed.
Hashed_Normalized(r, origCaseName, name) ==
  IF name = <<>> THEN r.ID ELSE name

\* What is hashed: origCaseName, which is r.ID when the name is empty.
Hashed(r, origCaseName, name) ==
  IF name = <<>> THEN r.ID ELSE origCaseName

\* A mutant of Fallback: the name is cut one character short.
Fallback_Cut11(s) == Slice(<<"r">> \o Md5Hex(s), 0, 11)

\* fmt.Sprintf("r%x", md5.Sum([]byte(s)))[0:12]
Fallback(s) == Slice(<<"r">> \o Md5Hex(s), 0, 12)

\* ic.ResourceName.
ResourceName(r, prefix) ==
  LET origCaseName == prefix \o DerivedName(r)
      name == Normalized(r, prefix)
  IN IF TakesFallback(name)
       THEN Fallback(Hashed(r, origCaseName, name))
       ELSE name

NameCalls ==
  {[op |-> "ResourceName", r |-> r, prefix |-> p, done |-> FALSE,
    out |-> <<>>] : r \in ResourceInputs, p \in Prefixes}

InitName ==
  /\ InitIdle
  /\ call \in NameCalls

\* ic.ResourceName(r) is called and returns.
CallResourceName ==
  /\ call.op = "ResourceName"
  /\ ~call.done
  /\ call' = [call EXCEPT !.done = TRUE,
                          !.out = ResourceName(call.r, call.prefix)]
  /\ UNCHANGED <<runVars, listingVars, genVars, varVars>>

NextName == CallResourceName

SpecName == InitName /\ [][NextName]_vars

(***************************************************************************)
(* processSingleResource on its own: one resource taken from the queue,    *)
(* with every resource data.                                               *)
(***************************************************************************)

\* A mutant of ImportCommandOf: the command is computed whatever the mode
\* of the resource and the schema of its kind.
ImportCommandOf_Always(r, mode, importer) == ImportCommand(r)

\* if r.Mode != "data" && ic.Resources[r.Resource].Importer != nil
\*   { writeData.ImportCommand = r.ImportCommand(ic) }
ImportCommandOf(r, mode, importer) ==
  IF mode # "data" /\ importer THEN ImportCommand(r) ELSE NoCommand

\* What the loop body of processSingleResource sends to the writer of the
\* service for resource r with data d: the resourceWriteData with the
\* formatted body, or nothing.
processSingleResource(r, d, mode, importer) ==
  IF Generate(d) = "block"
    THEN <<[WriteData(r) EXCEPT
              !.ResourceBody = BodyBlocks(d),
              !.ImportCommand = ImportCommandOf(r, mode, importer)]>>
    ELSE <<>>

\* r.Mode: "data" for a data source, empty for a managed resource.
Modes == {"", "data"}

\* mode is r.Mode, and importer is whether the schema of the kind,
\* ic.Resources[r.Resource], has an Importer.
GenerateCalls ==
  {[op |-> "processSingleResource", r |-> r, d |-> d, mode |-> m,
    importer |-> i, done |-> FALSE, sent |-> <<>>] :
     r \in Resources, d \in ResourceDatas, m \in Modes, i \in BOOLEAN}

InitGenerate ==
  /\ InitIdle
  /\ call \in GenerateCalls

\* A generation worker takes r from the queue and runs the loop body.
CallProcessSingleResource ==
  /\ call.op = "processSingleResource"
  /\ ~call.done
  /\ call' = [call EXCEPT !.done = TRUE,
                          !.sent = processSingleResource(call.r, call.d, call.mode,
                                                        call.importer)]
  /\ UNCHANGED <<runVars, listingVars, genVars, varVars>>

NextGenerate == CallProcessSingleResource

SpecGenerate == InitGenerate /\ [][NextGenerate]_vars

(***************************************************************************)
(* The registry of variables and vars.tf: the generation workers come to   *)
(* references that are variables, and Run calls generateVariables after    *)
(* the barrier of generation.                                              *)
(***************************************************************************)

\* The names of variables: fmt.Sprintf("%s_%s", path[0], value).
VarNames == {"v1", "v2"}

\* The references to variables that the generation of the resources of one
\* worker comes to, in order.
Todos == {<<>>, <<"v1">>, <<"v2">>, <<"v1", "v2">>}

VarBlock(type, labels) == [type |-> type, labels |-> labels]

\* body.AppendNewBlock("variable", []string{k})
VariableBlock(k) == VarBlock("variable", <<k>>)

\* What a previous run, or the user, left as vars.tf: nothing; variable v1;
\* variable v1 and an output named v2; variable v2 and a locals block
\* (which has no label); a file that does not parse.
PriorVarsFiles ==
  {NoVarsFile,
   [exists |-> TRUE, parses |-> TRUE, blocks |-> <<VariableBlock("v1")>>],
   [exists |-> TRUE, parses |-> TRUE,
    blocks |-> <<VariableBlock("v1"), VarBlock("output", <<"v2">>)>>],
   [exists |-> TRUE, parses |-> TRUE,
    blocks |-> <<VariableBlock("v2"), VarBlock("locals", <<>>)>>],
   [exists |-> TRUE, parses |-> FALSE, blocks |-> <<>>]}

InitVars ==
  /\ InitPipeline
  /\ services = AllServices
  /\ updatedSinceStr \in {"", "2023-07-24T00:00:00Z"}
  /\ incremental <=> updatedSinceStr # ""
  /\ notebooksFormat = "SOURCE"
  /\ dirState = "dir"
  /\ call = NoCall
  /\ variables = {}
  /\ refs \in [GenWorkers -> {[NoRefs EXCEPT !.todo = t] : t \in Todos}]
  /\ priorVars \in PriorVarsFiles
  /\ varsFile = priorVars
  /\ varsState = "generation"

\* The worker is at a reference to a variable it has not registered yet.
AtVariable(g) ==
  /\ varsState = "generation"
  /\ refs[g].idx <= Len(refs[g].todo)

\* variable: ic.variables[name] = desc, which takes no lock: the write of
\* the map starts from the map as it is.
VariableBegin(g) ==
  /\ AtVariable(g)
  /\ ~refs[g].writing
  /\ refs' = [refs EXCEPT ![g].writing = TRUE, ![g].seen = variables]
  /\ UNCHANGED <<variables, priorVars, varsFile, varsState>>
  /\ UNCHANGED <<runVars, listingVars, genVars, call>>

\* variable: the write of the map ends. When another worker wrote the map
\* in between, the map is left with both names or with what this write
\* started from and its own name.
VariableEnd(g) ==
  /\ AtVariable(g)
  /\ refs[g].writing
  /\ LET name == refs[g].todo[refs[g].idx] IN
       \/ variables' = variables \cup {name}
       \/ variables' = refs[g].seen \cup {name}
  /\ refs' = [refs EXCEPT ![g].writing = FALSE, ![g].seen = {},
                          ![g].idx = @ + 1]
  /\ UNCHANGED <<priorVars, varsFile, varsState>>
  /\ UNCHANGED <<runVars, listingVars, genVars, call>>

\* The runtime finds two writes of the map in progress: fatal error
\* "concurrent map writes", and the process ends.
VariableFatal ==
  /\ varsState = "generation"
  /\ \E g, h \in GenWorkers : g # h /\ refs[g].writing /\ refs[h].writing
  /\ varsState' = "fatal"
  /\ UNCHANGED <<variables, refs, priorVars, varsFile>>
  /\ UNCHANGED <<runVars, listingVars, genVars, call>>

\* generateVariables: the blocks of the parsed vars.tf that are kept. The
\* label of every block is looked up (ic.variables[labels[0]]) before its
\* type is tested.
KeptVars(blocks) ==
  SelectSeq(blocks, LAMBDA b : ~(b.type = "variable" /\ b.labels[1] \in variables))

\* generateVariables, called by Run after the barrier of generation. With
\* no variable it returns nil. In an incremental run vars.tf is read and
\* parsed (a failure of either is logged) and labels[0] panics on a block
\* without a label; os.Create truncates the file, or its error is
\* returned; the kept blocks and one block per variable, in the order of
\* the range over the map, are written, and the error of the write is not
\* looked at.
GenerateVariables ==
  /\ varsState = "generation"
  /\ \A g \in GenWorkers : refs[g].idx > Len(refs[g].todo)
  /\ IF variables = {}
       THEN /\ varsState' = "nil"
            /\ UNCHANGED varsFile
       ELSE \E readErr, createErr, writeErr \in BOOLEAN :
            \E order \in Orders(variables) :
              LET parsed == /\ incremental
                            /\ varsFile.exists
                            /\ ~readErr
                            /\ varsFile.parses
                  panics == /\ parsed
                            /\ \E i \in 1..Len(varsFile.blocks) :
                                 varsFile.blocks[i].labels = <<>>
                  kept == IF parsed /\ ~panics
                            THEN KeptVars(varsFile.blocks) ELSE <<>>
                  new == [i \in 1..Len(order) |-> VariableBlock(order[i])]
              IN  IF panics
                    THEN /\ varsState' = "panic"
                         /\ UNCHANGED varsFile
                    ELSE IF createErr
                      THEN /\ varsState' = "create error"
                           /\ UNCHANGED varsFile
                      ELSE /\ varsState' = "nil"
                           /\ varsFile' =
                                [exists |-> TRUE, parses |-> TRUE,
                                 blocks |-> IF writeErr THEN <<>>
                                            ELSE kept \o new]
  /\ UNCHANGED <<variables, refs, priorVars>>
  /\ UNCHANGED <<runVars, listingVars, genVars, call>>

NextVars ==
  \/ \E g \in GenWorkers : VariableBegin(g)
  \/ \E g \in GenWorkers : VariableEnd(g)
  \/ VariableFatal
  \/ GenerateVariables

SpecVars == InitVars /\ [][NextVars]_vars

(***************************************************************************)
(* Emit on its own: one call, from its first line to its return, for a     *)
(* resource that may fail any of its tests.                                *)
(***************************************************************************)

\* The calls of Emit: the resource; whether r.MatchPair() gives an empty
\* value; whether the kind is in ic.Importables; whether ic.testEmits is
\* set; whether the kind is in ic.Resources; ic.accountLevel and
\* ir.AccountLevel.
EmitCalls ==
  {[op |-> "Emit", r |-> r, emptyId |-> e, importable |-> i, testEmits |-> t,
    inResources |-> p, accountLevel |-> a, irAccountLevel |-> l,
    done |-> FALSE, was |-> "absent", testEmitted |-> FALSE] :
     r \in Resources, e \in BOOLEAN, i \in BOOLEAN, t \in BOOLEAN,
     p \in BOOLEAN, a \in BOOLEAN, l \in BOOLEAN}

InitEmit ==
  /\ InitPipeline
  /\ NoVariables
  /\ ~incremental
  /\ notebooksFormat = "SOURCE"
  /\ dirState = "missing"
  /\ call \in EmitCalls

\* setImportingState(s, state), as an earlier Emit (false) or Add (true) of
\* a resource left it.
SetImportingState(r, state) ==
  /\ call.op = "Emit"
  /\ ~call.done
  /\ importing[r] = "absent"
  /\ importing' = [importing EXCEPT ![r] = IF state THEN "true" ELSE "false"]
  /\ UNCHANGED <<runVars, genVars, varVars, call, counter, chans, importOpen,
                 handlersStarted, listers, workers, emit, State, Scope>>

\* Emit returns at one of its tests before it records the identity: the
\* empty identifier, a kind that is not importable, a disabled service,
\* ic.Has(r).
EmitRejects(c) ==
  \/ c.emptyId
  \/ ~c.importable
  \/ ~isServiceEnabled(ServiceOf(KindOf(c.r)))
  \/ Has(c.r)

\* Emit returns after it has recorded the identity: the kind is not in
\* ic.Resources, or the export is account level and the kind is not.
EmitDropsAfterMark(c) ==
  \/ ~c.inResources
  \/ c.accountLevel /\ ~c.irAccountLevel

\* Emit(r), from its first line to its return.
Emit ==
  /\ call.op = "Emit"
  /\ ~call.done
  /\ LET r == call.r IN
     IF EmitRejects(call)
       THEN /\ call' = [call EXCEPT !.done = TRUE, !.was = importing[r]]
            /\ UNCHANGED <<importing, counter, chans>>
     ELSE IF call.testEmits
       THEN /\ call' = [call EXCEPT !.done = TRUE, !.was = importing[r],
                                    !.testEmitted = TRUE]
            /\ UNCHANGED <<importing, counter, chans>>
     ELSE IF EmitDropsAfterMark(call)
       THEN /\ call' = [call EXCEPT !.done = TRUE, !.was = importing[r]]
            /\ importing' = [importing EXCEPT ![r] = "false"]
            /\ UNCHANGED <<counter, chans>>
     ELSE /\ call' = [call EXCEPT !.done = TRUE, !.was = importing[r]]
          /\ importing' = [importing EXCEPT ![r] = "false"]
          /\ counter' = counter + 1
          /\ chans' = [chans EXCEPT ![ChannelOf(r)] = Append(@, r)]
  /\ UNCHANGED <<runVars, genVars, varVars, importOpen, handlersStarted,
                 listers, workers, emit, State, Scope>>

NextEmit ==
  \/ \E r \in Resources, state \in BOOLEAN : SetImportingState(r, state)
  \/ Emit

SpecEmit == InitEmit /\ [][NextEmit]_vars

(***************************************************************************)
(* handleResourceWrite on its own: the writer of jobs.tf with the blocks   *)
(* of its queue in any order, the aggregator, and the end of               *)
(* generateAndWriteResources that closes the queue.                        *)
(***************************************************************************)

\* The blocks the generation workers may have sent for jobs.tf: j1 and x1
\* are in the existing file, y1 is not.
WriterNames == {"j1", "x1", "y1"}

MaxQueue == 3

\* The queues of a writer: blocks of different names, in any order.
WriterQueues ==
  {q \in UNION {[1..n -> WriterNames] : n \in 0..MaxQueue} :
     \A i, j \in 1..Len(q) : i # j => q[i] # q[j]}

\* generateAndWriteResources after its submit loop: every resource has been
\* generated and its block is in the queue of the writer, which has not
\* opened its file yet; each block holds one count of ic.waitGroup.
InitWriter ==
  /\ pc = "submit"
  /\ retErr = ""
  /\ services = AllServices
  /\ incremental \in BOOLEAN
  /\ updatedSinceStr = IF incremental THEN "2023-07-24T00:00:00Z" ELSE ""
  /\ notebooksFormat = "SOURCE"
  /\ dirState = "dir"
  /\ call \in {[op |-> "handleResourceWrite", arrived |-> q] : q \in WriterQueues}
  /\ counter = Len(call.arrived)
  /\ chans = [c \in Channels |-> <<>>]
  /\ importOpen = FALSE
  /\ handlersStarted = TRUE
  /\ listers = [k \in Listers |-> [st |-> "notStarted", idx |-> 1]]
  /\ workers = [w \in ImportWorkers |-> [st |-> "idle", r |-> NoRes, idx |-> 1]]
  /\ emit = [e \in Emitters |-> IdleEmit]
  /\ importing = [r \in Resources |-> "absent"]
  /\ State = <<>>
  /\ Scope = <<>>
  /\ genChans = "open"
  /\ submitted = 0
  /\ resourcesChan = <<>>
  /\ gens = [g \in GenWorkers |-> [st |-> "idle", r |-> NoRes]]
  /\ writerChan = [s \in AllServices |->
                     IF s = "jobs"
                       THEN [i \in 1..Len(call.arrived) |-> WriteData(call.arrived[i])]
                       ELSE <<>>]
  /\ writers = [s \in AllServices |-> [IdleWriter EXCEPT !.st = "start"]]
  /\ importChan = <<>>
  /\ agg = [st |-> "idle"]
  /\ shImports = {}
  /\ sh = [exists |-> TRUE, cmds |-> <<>>]
  /\ files = [s \in AllServices |->
                [exists |-> TRUE, blocks |-> OldBlocks(PriorFile(s))]]
  /\ shOpen = TRUE
  /\ touched = {"import.sh"}
  /\ faults = 0
  /\ NoVariables

NextWriter ==
  \/ RunGeneration
  \/ WriterStep
  \/ AggStep

SpecWriter == InitWriter /\ [][NextWriter]_vars

(***************************************************************************)
(* The loop body of dataToHcl on one field, with the dependency declared   *)
(* for the path of the field: reference, variable and readListFromData.    *)
(***************************************************************************)

\* A value of schema.ResourceData, with its Go type.
Raw(kind, v) == [kind |-> kind, v |-> v]

\* The values of the field: strings, integers, booleans and lists of
\* strings. s3 and pw are the values that are to be kept out of the output.
FieldValues ==
  {Raw("string", <<>>), Raw("string", <<"s", "3">>),
   Raw("int", 0), Raw("int", 7),
   Raw("bool", FALSE), Raw("bool", TRUE),
   Raw("list", <<>>), Raw("list", <<Raw("string", <<"s", "3">>)>>),
   Raw("list", <<Raw("string", <<"s", "3">>), Raw("string", <<"p", "w">>)>>),
   Raw("list", <<Raw("int", 7)>>)}

\* as.Type of the field for which d.GetOk returns a value of the Go type.
TypeOfKind(kind) ==
  CASE kind = "string" -> "TypeString"
    [] kind = "int" -> "TypeInt"
    [] kind = "bool" -> "TypeBool"
    [] kind = "list" -> "TypeList"

\* The dependency of i.Depends whose Path is the path of the field: none,
\* one with File, one with Variable.
Dependencies == {"none", "File", "Variable"}

\* The calls of the loop body: path is the path of the field (one name),
\* name is ic.regexFix(i.Name(ic, d), simpleNameFixes).
FieldCalls ==
  {[op |-> "dataToHcl", path |-> <<<<"t", "k">>>>,
    type |-> TypeOfKind(raw.kind), raw |-> raw,
    required |-> req, dep |-> dep, name |-> <<"n", "1">>, done |-> FALSE,
    set |-> FALSE, attr |-> NoTokens, panic |-> FALSE] :
     raw \in FieldValues,
     req \in BOOLEAN, dep \in Dependencies}

\* strconv.FormatInt(num, 10), for the integers of FieldValues.
FormatInt(num) == IF num = 0 THEN <<"0">> ELSE <<"7">>

\* hclwrite.TokensForValue of a string, a number and a boolean.
TokensForValue(raw) ==
  CASE raw.kind = "string" ->
         <<Token("TokenOQuote", <<"\"">>),
           Token("TokenQuotedLit", maybeAddQuoteCharacter(raw.v)),
           Token("TokenCQuote", <<"\"">>)>>
    [] raw.kind = "int" -> <<Token("TokenNumberLit", FormatInt(raw.v))>>
    [] raw.kind = "bool" ->
         <<Token("TokenIdent", IF raw.v THEN <<"t", "r", "u", "e">>
                                ELSE <<"f", "a", "l", "s", "e">>)>>

Var == <<"v", "a", "r">>

\* What a call that sets an attribute comes to: the tokens and the names
\* it puts in ic.variables.
Produced(tokens, names) == [tokens |-> tokens, names |-> names]

\* ic.variable(name, ""): ic.variables[name] = desc, and the traversal
\* var.<name>.
variable(name) == Produced(TokensForTraversal(<<Var, name>>), {name})

\* ic.reference for a path with the dependency dep: the file expression,
\* the variable named path[0] + "_" + value, or the literal (no resource
\* is referred to here).
reference(path, value, literal, dep) ==
  CASE dep = "File" ->
         Produced(<<Token("TokenOQuote", <<"\"">>),
                    Token("TokenQuotedLit",
                          <<"$", "{", "p", "a", "t", "h", ".", "m", "o", "d",
                            "u", "l", "e", "}", "/">> \o value),
                    Token("TokenCQuote", <<"\"">>)>>, {})
    [] dep = "Variable" -> variable(path[1] \o <<"_">> \o value)
    [] OTHER -> Produced(TokensForValue(literal), {})

\* The loop of readListFromData over a primitive list, after the opening
\* bracket; "error" for an element that is not a string or an integer.
RECURSIVE ListElements(_, _, _, _)
ListElements(path, rawList, dep, first) ==
  IF rawList = <<>> THEN Produced(<<>>, {})
  ELSE LET x == Head(rawList)
           comma == IF first THEN <<>> ELSE <<Token("TokenComma", <<",">>)>>
           one == IF x.kind = "string"
                    THEN reference(path, x.v, x, dep)
                    ELSE Produced(TokensForValue(x), {})
           rest == ListElements(path, Tail(rawList), dep, FALSE) IN
       Produced(comma \o one.tokens \o rest.tokens,
                one.names \cup rest.names)

\* raw and nonZero of the loop body: for a path with a Variable dependency
\* raw becomes the normalized name of the resource and nonZero true.
RawAtSwitch(c) == IF c.dep = "Variable" THEN Raw("string", c.name) ELSE c.raw

NonZero(c) ==
  \/ c.dep = "Variable"
  \/ c.raw \notin {Raw("string", <<>>), Raw("int", 0), Raw("bool", FALSE),
                    Raw("list", <<>>)}

\* The loop body of dataToHcl for the field of c: whether the attribute is
\* set, its tokens, the names registered, and whether a type assertion
\* panicked.
SetOf(c, produced) ==
  [c EXCEPT !.done = TRUE, !.set = TRUE, !.attr = produced.tokens]

dataToHclField(c) ==
  LET raw == RawAtSwitch(c)
      skipped == [new |-> [c EXCEPT !.done = TRUE], names |-> {}] IN
  IF ~NonZero(c) /\ ~c.required THEN skipped
  ELSE CASE c.type = "TypeString" ->
              LET p == reference(c.path, raw.v, raw, c.dep) IN
              [new |-> SetOf(c, p), names |-> p.names]
         [] c.type = "TypeInt" ->
              LET num == IF raw.kind = "int" THEN raw.v ELSE 0
                  p == reference(c.path, FormatInt(num), Raw("int", num),
                                 c.dep) IN
              [new |-> SetOf(c, p), names |-> p.names]
         [] c.type = "TypeBool" ->
              IF raw.kind = "bool"
                THEN [new |-> SetOf(c, Produced(TokensForValue(raw), {})),
                      names |-> {}]
                ELSE [new |-> [c EXCEPT !.done = TRUE, !.panic = TRUE],
                      names |-> {}]
         [] c.type = "TypeList" ->
              IF raw.kind # "list" \/ raw.v = <<>> THEN skipped
              ELSE LET p == ListElements(c.path, raw.v, c.dep, TRUE) IN
                   [new |-> SetOf(c, Produced(
                               <<Token("TokenOBrack", <<"[">>)>> \o p.tokens
                                 \o <<Token("TokenCBrack", <<"]">>)>>, {})),
                    names |-> p.names]

InitField ==
  /\ InitPipeline
  /\ NoVariables
  /\ services = AllServices
  /\ ~incremental
  /\ notebooksFormat = "SOURCE"
  /\ dirState = "missing"
  /\ call \in FieldCalls

\* A generation worker runs the loop body of dataToHcl for the field.
CallDataToHcl ==
  /\ call.op = "dataToHcl"
  /\ ~call.done
  /\ LET res == dataToHclField(call) IN
       /\ call' = res.new
       /\ variables' = variables \cup res.names
  /\ UNCHANGED <<refs, priorVars, varsFile, varsState>>
  /\ UNCHANGED <<runVars, listingVars, genVars>>

NextField == CallDataToHcl

SpecField == InitField /\ [][NextField]_vars

(***************************************************************************)
(* startImportChannels and resourceHandler for one dedicated channel: the  *)
(* number of handlers of the kind, and the handlers taking the resources   *)
(* of the kind from the channel.                                           *)
(***************************************************************************)

\* makeResourcesChannels without EXPORTER_DEDICATED_RESOUSE_CHANNELS: the
\* kinds with a channel of their own.
DefaultDedicated ==
  {"databricks_user", "databricks_service_principal", "databricks_group"}

\* goroutinesNumber, for the kinds that have a channel of their own.
goroutinesNumber ==
  [k \in {"databricks_user", "databricks_service_principal"} |-> 1]

\* An environment variable: not set, or set to a number.
Unset == [set |-> FALSE]
SetTo(n) == [set |-> TRUE, v |-> n]

\* The most handlers EXPORTER_PARALLELISM_<kind> asks for, and the most
\* resources of the kind in the channel.
MaxHandlers == 3
MaxItems == 3

\* The resources of the kind of the channel, in the order of their Emit,
\* by their ids.
Items == [i \in 1..MaxItems |-> ToString(i)]

\* getEnvAsInt(name, default): the value of the variable, or the default
\* when it is not set.
getEnvAsInt(env, default) == IF env.set THEN env.v ELSE default

\* A mutant of numRoutinesOf: goroutinesNumber is not looked at.
numRoutinesOf_NoTable(kind, env) == getEnvAsInt(env, defaultNumRoutines)

\* startImportChannels: numRoutines of the channel of a kind.
numRoutinesOf(kind, env) ==
  getEnvAsInt(env, IF kind \in DOMAIN goroutinesNumber
                     THEN goroutinesNumber[kind]
                     ELSE defaultNumRoutines)

\* The calls of startImportChannels: the kind of the channel, what
\* EXPORTER_PARALLELISM_<kind> is set to, and the resources of the kind
\* that were emitted.
HandlerCalls ==
  {[op |-> "startImportChannels", kind |-> k, env |-> e,
    ch |-> SubSeq(Items, 1, n), started |-> FALSE, handlers |-> <<>>,
    imported |-> {}] :
     k \in DefaultDedicated,
     e \in {Unset} \cup {SetTo(h) : h \in 1..MaxHandlers},
     n \in 0..MaxItems}

InitHandlers ==
  /\ InitIdle
  /\ call \in HandlerCalls

\* startImportChannels: numRoutines handlers of the channel are started.
StartImportChannels ==
  /\ call.op = "startImportChannels"
  /\ ~call.started
  /\ call' = [call EXCEPT
                !.started = TRUE,
                !.handlers = [i \in 1..numRoutinesOf(call.kind, call.env)
                                |-> NoRes]]
  /\ UNCHANGED <<runVars, listingVars, genVars, varVars>>

\* resourceHandler: for r := range ch, and r.ImportResource(ic) begins.
HandlerRecv(i) ==
  /\ call.op = "startImportChannels"
  /\ i \in DOMAIN call.handlers
  /\ call.handlers[i] = NoRes
  /\ call.ch # <<>>
  /\ call' = [call EXCEPT !.handlers[i] = Head(call.ch), !.ch = Tail(@)]
  /\ UNCHANGED <<runVars, listingVars, genVars, varVars>>

\* resourceHandler: r.ImportResource(ic) returns.
HandlerDone(i) ==
  /\ call.op = "startImportChannels"
  /\ i \in DOMAIN call.handlers
  /\ call.handlers[i] # NoRes
  /\ call' = [call EXCEPT !.handlers[i] = NoRes,
                          !.imported = @ \cup {call.handlers[i]}]
  /\ UNCHANGED <<runVars, listingVars, genVars, varVars>>

HandlerStep == \E i \in 1..MaxHandlers : HandlerRecv(i) \/ HandlerDone(i)

NextHandlers ==
  \/ StartImportChannels
  \/ HandlerStep

SpecHandlers == InitHandlers /\ [][NextHandlers]_vars

(***************************************************************************)
(* Dedup of Emit and Add.                                                  *)
(***************************************************************************)

\* C1, as stated: whatever the interleaving of the Emit calls made for one
\* identity, State never holds the identity twice and no file holds two
\* blocks written for it in this run (of "exactly one", the "at most one").
C1_EmitTwiceOneEntry ==
  \A r \in Resources :
    /\ Count(r, State) <= 1
    /\ \A s \in AllServices :
         Count(NewBlock(BlockName(r)), files[s].blocks) <= 1

\* C2: an Emit call that reaches its dedup test for an identity the tracker
\* already holds, with either flag, returns there: the counter, the queues
\* and the tracker are as before.
C2_LaterEmitNoOp ==
  [][\A e \in Emitters :
       (/\ emit[e].step = "check"
        /\ importing[emit[e].r] # "absent"
        /\ emit'[e] # emit[e])
       => /\ emit'[e] = IdleEmit
          /\ counter' = counter
          /\ chans' = chans
          /\ importing' = importing]_vars

\* C2, its case: the listing of the groups and the import of job j1 have
\* both called Emit for g1 and both calls have returned; g1 is recorded as
\* being emitted only, and it is in its queue once.
C2_LaterEmitNoOp_Witness ==
  /\ listers["databricks_group"].idx = 2
  /\ emit[ListerOf("databricks_group")] = IdleEmit
  /\ \E w \in ImportWorkers :
       /\ workers[w].r = "j1"
       /\ workers[w].idx = 2
       /\ emit[w] = IdleEmit
  /\ importing["g1"] = "false"
  /\ chans["databricks_group"] = <<"g1">>
  /\ \A w \in ImportWorkers : workers[w].r # "g1"
  /\ counter = 3

(***************************************************************************)
(* The files of an incremental run.                                        *)
(***************************************************************************)

\* C3, as stated: in an incremental run, once a writer has finished without
\* an I/O failure, its file holds the blocks written in this run plus the
\* prior blocks whose name is not among them, and no name twice.
C3_MergedFile ==
  \A s \in AllServices :
    (incremental /\ writers[s].st = "exited" /\ writers[s].ioerr = "none") =>
      /\ SeqToSet(files[s].blocks) =
           {NewBlock(n) : n \in writers[s].new}
           \cup {OldBlock(n) : n \in SeqToSet(writers[s].existing) \ writers[s].new}
      /\ \A i, j \in 1..Len(files[s].blocks) :
           i # j => files[s].blocks[i][1] # files[s].blocks[j][1]

\* C4, as stated, for the runs in which no resource is in Scope twice: once
\* the aggregator of an incremental run has finished, import.sh holds no
\* two import commands for the same target.
C4_NoDuplicateTarget ==
  (/\ incremental
   /\ agg.st = "exited"
   /\ \A r \in Resources : Count(r, Scope) <= 1) =>
    \A i, j \in 1..Len(sh.cmds) :
      i # j => TargetOf(sh.cmds[i]) # TargetOf(sh.cmds[j])

\* The import commands the aggregator has written in this run: it takes
\* each of them out of ic.shImports.
FreshCommands == SeqToSet(sh.cmds) \ shImports

\* C5, as stated: once the aggregator of an incremental run has finished, a
\* prior import command whose target is not generated in this run is in
\* import.sh once, after every command written in this run.
C5_PriorKept ==
  (incremental /\ agg.st = "exited") =>
    \A p \in shImports :
      TargetOf(p) \notin {TargetOf(c) : c \in FreshCommands} =>
        /\ Count(p, sh.cmds) = 1
        /\ \A i, j \in 1..Len(sh.cmds) :
             (sh.cmds[i] = p /\ sh.cmds[j] \in FreshCommands) => j < i

(***************************************************************************)
(* The error returns of Run.                                               *)
(***************************************************************************)

\* The import.sh and the <service>.tf files are as the previous run left
\* them, and this run has made no file.
NothingWritten ==
  /\ touched = {}
  /\ ~shOpen
  /\ \A s \in AllServices : \A i \in 1..Len(files[s].blocks) :
       files[s].blocks[i][2] = "old"

\* C6: when Scope is empty once the import channels are closed, Run is at
\* its test of Scope or has returned "no resources to import"; generation
\* never starts and no file is made or written.
C6_NoResources ==
  (~importOpen /\ Len(Scope) = 0) =>
    /\ pc \in {"checkScope", "returned"}
    /\ pc = "returned" => retErr = "no resources to import"
    /\ genChans = "none"
    /\ NothingWritten

\* C6, its case: every listing has returned without a resource and Run has
\* returned.
C6_NoResources_Witness ==
  /\ pc = "returned"
  /\ retErr = "no resources to import"
  /\ \A k \in Listers : listers[k].st = "done"
  /\ \A r \in Resources : importing[r] = "absent"

\* The setup cannot succeed: no service, an incremental run whose timestamp
\* (the one given, else the one of the last run) is empty or does not
\* parse, or a path that is no directory and cannot be made one. The
\* timestamp is settled once Run is past its test.
SetupBad ==
  \/ services = {}
  \/ /\ incremental
     /\ pc \notin {"start", "incremental"}
     /\ ~ParsesRFC3339(updatedSinceStr)
  \/ dirState \in {"file", "uncreatable"}

\* C7: with such a setup Run never leaves its setup tests other than by
\* returning an error; no import worker is started, no listing is started
\* and no file is made or written.
C7_SetupErrors ==
  SetupBad =>
    /\ pc \in {"start", "incremental", "format", "directory", "returned"}
    /\ pc = "returned" => retErr \notin {"", "nil"}
    /\ ~handlersStarted
    /\ \A k \in Listers : listers[k].st = "notStarted"
    /\ \A e \in Emitters : emit[e] = IdleEmit
    /\ NothingWritten

\* C7, its case: an incremental run with a timestamp that does not parse
\* has returned its error.
C7_SetupErrors_Witness ==
  /\ pc = "returned"
  /\ incremental
  /\ updatedSinceStr = "aaa"
  /\ retErr = "can't parse value"

(***************************************************************************)
(* The counter and the barriers.                                           *)
(***************************************************************************)

\* No queue holds an item.
QueuesEmpty ==
  /\ \A c \in Channels : chans[c] = <<>>
  /\ resourcesChan = <<>>
  /\ \A s \in AllServices : writerChan[s] = <<>>
  /\ importChan = <<>>

\* Every task that was started has returned or can take a step.
NoTaskBlocked ==
  /\ \A k \in Listers : listers[k].st # "running"
  /\ \A e \in Emitters : emit[e] = IdleEmit
  /\ handlersStarted => \A w \in ImportWorkers : WorkerExited(w)
  /\ \A g \in GenWorkers : gens[g].st = "notStarted" \/ GenExited(g)
  /\ \A s \in AllServices :
       writers[s].st \in {"init", "exited", "failed"} \/ ENABLED Writer(s)
  /\ agg.st \in {"notStarted", "exited"} \/ ENABLED AggStep

\* C8, as stated: after Run returns the counter is zero, every queue is
\* closed and empty, and no task is left blocked.
C8_AllClosedAfterReturn ==
  pc = "returned" =>
    /\ counter = 0
    /\ ~importOpen
    /\ genChans = "closed"
    /\ QueuesEmpty
    /\ NoTaskBlocked

\* Run returned from its setup, before startImportChannels.
ReturnedInSetup == pc = "returned" /\ ~handlersStarted

\* C8, amended: after Run returns the counter is zero, no queue holds an
\* item and no started task is left blocked; the import queues are closed
\* unless Run returned from its setup (no import worker was started then),
\* and the generation, writer and import-command queues are closed when
\* generation was started (they are never made otherwise).
C8_DrainedAfterReturn ==
  pc = "returned" =>
    /\ counter = 0
    /\ QueuesEmpty
    /\ NoTaskBlocked
    /\ importOpen <=> ReturnedInSetup
    /\ genChans \in {"none", "closed"}
    /\ genChans = "none" <=>
         retErr \notin {"nil", "fmt error", "write error"}

\* C8, its case: Run has returned nil after a generation that wrote blocks.
C8_DrainedAfterReturn_Witness ==
  /\ pc = "returned"
  /\ retErr = "nil"
  /\ genChans = "closed"
  /\ \E s \in AllServices : writers[s].new # {}

\* C9: the import channels are closed, and generation is started, only
\* with the counter at zero; the channels of generation are closed only
\* with the counter at zero again, after every resource of Scope was
\* submitted; Run returns from generation only after that close.
C9_Barriers ==
  [][/\ (importOpen /\ ~importOpen') => counter = 0
     /\ (genChans = "none" /\ genChans' = "open") =>
          (counter = 0 /\ ~importOpen)
     /\ (genChans = "open" /\ genChans' = "closed") =>
          (counter = 0 /\ submitted = Len(Scope) /\ submitted >= 1)
     /\ (genChans # "none" /\ pc # "returned" /\ pc' = "returned") =>
          genChans = "closed"]_vars

\* C9, its case: both barriers are passed in a run that submitted the two
\* resources.
C9_Barriers_Witness ==
  /\ pc = "summary"
  /\ genChans = "closed"
  /\ submitted = 2
  /\ counter = 0

\* How many items are in the queues.
Queued ==
  Cardinality(UNION {{<<c, i>> : i \in 1..Len(chans[c])} : c \in Channels})
  + Len(resourcesChan)
  + Cardinality(UNION {{<<s, i>> : i \in 1..Len(writerChan[s])} :
                         s \in AllServices})
  + Len(importChan)

\* How many increments of the counter are held by tasks: one per running
\* listing, one per item a receiver is working on, and one per increment
\* already made for a send that has not happened yet.
Held ==
  Cardinality({k \in Listers : listers[k].st = "running"})
  + Cardinality({e \in Emitters : emit[e].step = "send"})
  + Cardinality({w \in ImportWorkers : workers[w].st # "idle"})
  + (IF pc = "submitSend" THEN 1 ELSE 0)
  + Cardinality({g \in GenWorkers : gens[g].st \in {"generate", "send", "fin"}})
  + Cardinality({g \in GenWorkers : gens[g].st = "send"})
  + Cardinality({s \in AllServices : writers[s].st \in {"add", "send", "fin"}})
  + Cardinality({s \in AllServices : writers[s].st = "send"})
  + (IF agg.st = "fin" THEN 1 ELSE 0)

C11_ListingErrorNotFatal ==
  [][/\ \A k \in Listers :
          (listers[k].st = "running" /\ listers'[k].st = "failed") =>
            /\ counter' = counter - 1
            /\ pc' = pc
            /\ retErr' = retErr
            /\ \A k2 \in Listers \ {k} : listers'[k2] = listers[k2]
            /\ <<chans, importOpen, workers, emit, importing, State, Scope>>' =
                 <<chans, importOpen, workers, emit, importing, State, Scope>>
     /\ (pc = "wait1" /\ pc' = "closeImport") =>
          \A k \in Listers : listers[k].st # "running"
     /\ (pc # "returned" /\ pc' = "returned"
           /\ retErr' = "no resources to import") => Len(Scope) = 0]_vars

\* C11, its case: the listing of the groups failed; the listing of the
\* jobs went on to its end, j1 was generated and written, and Run has
\* returned nil.
C11_ListingErrorNotFatal_Witness ==
  /\ listers["databricks_group"].st = "failed"
  /\ listers["databricks_job"].st = "done"
  /\ writers["jobs"].st = "exited"
  /\ NewBlock("j1") \in SeqToSet(files["jobs"].blocks)
  /\ pc = "returned"
  /\ retErr = "nil"

\* C12: the step in which a generation worker drops its resource (the
\* body builder or dataToHcl failed, among the causes) sends nothing to a
\* writer or to the aggregator, writes nothing, counts the resource down,
\* leaves Run alone and leaves the worker free for the next resource.
C12_GenerationErrorDropped ==
  [][\A g \in GenWorkers :
       (gens[g].st = "generate" /\ gens'[g].st = "idle") =>
         /\ counter' = counter - 1
         /\ gens'[g].r = NoRes
         /\ <<writerChan, importChan, files, sh, writers, agg>>' =
              <<writerChan, importChan, files, sh, writers, agg>>
         /\ pc' = pc
         /\ retErr' = retErr]_vars

\* C12, its case: both resources were submitted and taken by the workers,
\* no I/O failed and no block reached a writer: both were dropped, and the
\* counter is back at zero.
C12_GenerationErrorDropped_Witness ==
  /\ pc = "closeGen"
  /\ submitted = 2
  /\ counter = 0
  /\ faults = 0
  /\ \A s \in AllServices : writers[s].new = {} /\ writerChan[s] = <<>>
  /\ \A g \in GenWorkers : gens[g].st = "idle"

\* C13, as stated: after an I/O failure of a writer Run still terminates:
\* it has returned or some step can still be taken.
C13_WriterFailureNotFatal ==
  (\E s \in AllServices : writers[s].ioerr # "none") =>
    (pc = "returned" \/ ENABLED Next)

Resolved(matchTypes) ==
  /\ call.op = "getTraversalTokens"
  /\ call.done
  /\ call.ref.MatchType \in matchTypes

\* The approximations of the kind of the reference of the call that have
\* the attribute of the reference.
Targets ==
  {sr \in SeqToSet(State) :
     /\ sr.Type = call.ref.Resource
     /\ MatchAttribute(call.ref) \in DOMAIN sr.Attributes}

TargetValue(sr) == sr.Attributes[MatchAttribute(call.ref)]

TargetTraversal(sr) == genTraversalTokens(sr, MatchAttribute(call.ref))

\* C15: with the exact or default policy the result is the traversal to an
\* approximation of the kind whose attribute equals the value when there
\* is one, and no tokens when there is none.
C15_ExactResolution ==
  Resolved({MatchExact, MatchDefault}) =>
    LET hits == {sr \in Targets : TargetValue(sr) = call.value} IN
    IF hits # {}
      THEN \E sr \in hits :
             call.tokens = TokensForTraversal(TargetTraversal(sr))
      ELSE call.tokens = NoTokens

\* C15, its case: the value foo is resolved while the group a, whose
\* display_name is foo, is the only group of that name in State.
C15_ExactResolution_Witness ==
  /\ Resolved({MatchExact})
  /\ call.value = <<"f", "o", "o">>
  /\ Len(State) = MaxState
  /\ call.tokens = TokensForTraversal(<<"databricks_group", "a",
                                        "display_name">>)

\* C16: with the prefix policy a result is the reference to a candidate
\* whose value c is a prefix of the value v, followed by the literal s with
\* c \o s = v.
C16_PrefixResolution ==
  (Resolved({MatchPrefix}) /\ call.tokens # NoTokens) =>
    \E sr \in Targets :
      LET c == TargetValue(sr) IN
      /\ HasPrefix(call.value, c)
      /\ \E n \in 0..Len(call.value) :
           LET s == Slice(call.value, n, Len(call.value)) IN
           /\ c \o s = call.value
           /\ call.tokens = PrefixTokens(TargetTraversal(sr), s)

\* C16, its case: foo-suffix against the candidate foo gives the reference
\* to it and the literal -suffix.
C16_PrefixResolution_Witness ==
  /\ Resolved({MatchPrefix})
  /\ call.value = <<"f", "o", "o", "-", "s", "u", "f", "f", "i", "x">>
  /\ call.tokens = PrefixTokens(<<"databricks_group", "a", "display_name">>,
                                <<"-", "s", "u", "f", "f", "i", "x">>)

\* C17: with the regexp policy the result is literal before the capture,
\* reference, literal after the capture, with before \o captured \o after
\* equal to the value, when the pattern is there, matches, has exactly one
\* capture group and the captured text is the attribute of an approximation
\* of the kind; in every other case there are no tokens.
C17_RegexpResolution ==
  Resolved({MatchRegexp}) =>
    LET re == call.ref.Regexp
        v == call.value
        splits ==
          IF re # NoRegexp /\ RegexpMatches(re, v) /\ re.groups = 1
            THEN {<<Len(re.pre), Len(v) - Len(re.post)>>}
            ELSE {}
        hits == {<<sr, p>> \in Targets \X splits :
                   TargetValue(sr) = Slice(v, p[1], p[2])}
    IN IF hits # {}
         THEN \E h \in hits :
                LET before == Slice(v, 0, h[2][1])
                    captured == TargetValue(h[1])
                    after == Slice(v, h[2][2], Len(v)) IN
                /\ before \o captured \o after = v
                /\ call.tokens =
                     RegexpTokens(before, TargetTraversal(h[1]), after)
         ELSE call.tokens = NoTokens

\* C17, its case: x-foo-y under ^x-(.*)-y$ gives the literal x-, the
\* reference to a group named foo and the literal -y.
C17_RegexpResolution_Witness ==
  /\ Resolved({MatchRegexp})
  /\ call.value = <<"x", "-", "f", "o", "o", "-", "y">>
  /\ call.ref.Regexp # NoRegexp
  /\ call.tokens = RegexpTokens(<<"x", "-">>, <<"databricks_group", "a",
                                        "display_name">>, <<"-", "y">>)

\* What the call can return on a State.
Resolutions(state) ==
  {getTraversalTokens(call.ref, call.value, found) :
     found \in Find(state, FindArg(call.ref, call.value),
                    MatchAttribute(call.ref), call.ref)}

\* C18, as stated: the references of a block are the same in every
\* interleaving: whatever the order in which the same approximations were
\* appended to State, the call returns the same.
C18_SameInEveryInterleaving ==
  (call.op = "getTraversalTokens" /\ call.done) =>
    \A state \in Orders(SeqToSet(State)) :
      Resolutions(state) = Resolutions(State)

(***************************************************************************)
(* Naming.                                                                 *)
(***************************************************************************)

\* ResourceName has returned.
Named == call.op = "ResourceName" /\ call.done

\* C19: when the normalized name is empty or starts with a digit, the
\* result is r followed by 11 hex digits, 12 characters in all, and any
\* resource with the same derived name and the same id gets the same
\* result under the same prefix.
C19_FallbackName ==
  (Named /\ TakesFallback(Normalized(call.r, call.prefix))) =>
    /\ Len(call.out) = 12
    /\ call.out[1] = "r"
    /\ \A i \in 2..12 : call.out[i] \in HexDigits
    /\ \A r \in ResourceInputs :
         (DerivedName(r) = DerivedName(call.r) /\ r.ID = call.r.ID) =>
           ResourceName(r, call.prefix) = call.out

\* C19, its case: the name of the test, a UUID and a number, gives
\* r56cde0f5eda.
C19_FallbackName_Witness ==
  /\ Named
  /\ call.r.Name = <<"9", "7", "2", "1", "4", "3", "1", "b", "_", "b", "c",
       "d", "3", "_", "4", "5", "2", "6", "_", "b", "9", "0", "f", "_", "f",
       "5", "d", "e", "2", "b", "e", "f", "e", "c", "8", "c", "|", "8", "7",
       "3", "7", "7", "9", "8", "1", "9", "3">>
  /\ call.prefix = <<>>
  /\ call.out = <<"r", "5", "6", "c", "d", "e", "0", "f", "5", "e", "d", "a">>

\* The resources whose raw name is another than that of the call and
\* differs from it in letter case only, all else being equal, and that take
\* the fallback as the call does.
CaseTwins ==
  {r \in ResourceInputs :
     /\ r.Name # call.r.Name
     /\ ToLower(r.Name) = ToLower(call.r.Name)
     /\ r.DataName = call.r.DataName
     /\ r.ID = call.r.ID
     /\ TakesFallback(Normalized(r, call.prefix))
     /\ TakesFallback(Normalized(call.r, call.prefix))}

\* C20, as stated: two raw names that differ in letter case only and take
\* the fallback get different names.
C20_CaseTwinsDiffer ==
  Named => \A r \in CaseTwins : ResourceName(r, call.prefix) # call.out

\* C20, amended: they get different names when the normalized name starts
\* with a digit; when it is empty the id is hashed in place of the name,
\* and the two, having the same id, get the same name.
C20_DigitCaseTwinsDiffer ==
  Named =>
    \A r \in CaseTwins :
      IF Normalized(r, call.prefix) # <<>>
        THEN ResourceName(r, call.prefix) # call.out
        ELSE ResourceName(r, call.prefix) = call.out

\* C20, its case: 0A has been named, and 0a is its twin.
C20_DigitCaseTwinsDiffer_Witness ==
  /\ Named
  /\ call.r.Name = <<"0", "A">>
  /\ call.prefix = <<>>
  /\ \E r \in CaseTwins : r.Name = <<"0", "a">>

(***************************************************************************)
(* State, Scope and the tracker.                                           *)
(***************************************************************************)

\* s is what t started with.
IsPrefix(s, t) == Len(s) <= Len(t) /\ SubSeq(t, 1, Len(s)) = s

\* C22: State is append-only: whatever step is taken by an Emit, an Add or
\* any other task, every entry that State held is still there, at the same
\* place and unchanged.
C22_StateAppendOnly == [][IsPrefix(State, State')]_vars

\* C22, its case: a second entry was appended to State after emits and adds
\* of both resources.
C22_StateAppendOnly_Witness ==
  /\ Len(State) = 2
  /\ State[1] # State[2]
  /\ \E w \in ImportWorkers : workers[w].st = "fin" /\ workers[w].r = State[2]

\* Run is past ic.waitGroup.Wait() of the listing.
ListingPassed ==
  handlersStarted /\ pc \notin {"startImport", "listing", "wait1"}

\* The resources that passed the filters of Emit: they were marked and sent.
Passed == {r \in Resources : importing[r] # "absent"}

\* C23, as stated: when the listing barrier is passed, Scope is as long as
\* the number of resources that passed the filters of Emit.
C23_ScopeCountsPassed ==
  ListingPassed => Len(Scope) = Cardinality(Passed)

\* C23, amended: when the listing barrier is passed, Scope holds every
\* resource that State holds and no resource that did not pass the filters
\* of Emit; a resource that passed them and whose import failed or whose
\* state was nil is not in Scope. Scope only grows.
C23_ScopeHoldsAdded ==
  /\ [](ListingPassed =>
         /\ SeqToSet(Scope) = SeqToSet(State)
         /\ Len(Scope) = Len(State)
         /\ SeqToSet(Scope) \subseteq Passed)
  /\ [][IsPrefix(Scope, Scope')]_vars

\* C23, its case: the barrier is passed with one resource in Scope and
\* another that passed the filters of Emit and is not in Scope.
C23_ScopeHoldsAdded_Witness ==
  /\ ListingPassed
  /\ Len(Scope) = 1
  /\ Cardinality(Passed) = 2

\* C25: Has(r) is true whenever the tracker holds r with either flag or
\* State holds r; HasInState(r, TRUE) is true only when the flag is "true"
\* or State holds r, and it is false for a resource that is only being
\* emitted.
C25_HasEitherFlag ==
  \A r \in Resources :
    /\ (importing[r] # "absent" \/ StateHas(r)) => Has(r)
    /\ HasInState(r, TRUE) => (importing[r] = "true" \/ StateHas(r))
    /\ (importing[r] = "false" /\ ~StateHas(r)) => ~HasInState(r, TRUE)

\* C25, its case: one resource is only being emitted, the other is added
\* and in State.
C25_HasEitherFlag_Witness ==
  \E r, q \in Resources :
    /\ importing[r] = "false" /\ ~StateHas(r)
    /\ importing[q] = "true" /\ StateHas(q)

(***************************************************************************)
(* The end of generation.                                                  *)
(***************************************************************************)

\* C26, as stated: when Run has returned from an incremental run that
\* generated, every writer has finished its work after the close (the
\* prior blocks are appended, the file is closed or removed) and the
\* aggregator has written the remaining prior import commands.
C26_PostCloseWorkBeforeReturn ==
  (incremental /\ pc = "returned" /\ genChans = "closed") =>
    /\ \A s \in AllServices : writers[s].st \in {"exited", "failed"}
    /\ agg.st = "exited"

\* No queue holds an item.
NoItemQueued ==
  /\ \A c \in Channels : chans[c] = <<>>
  /\ resourcesChan = <<>>
  /\ \A s \in AllServices : writerChan[s] = <<>>
  /\ importChan = <<>>

\* No task is in the middle of an item: no listing runs, no Emit is at its
\* send, no import worker, generation worker, writer or aggregator holds an
\* item it received, and Run is not at a send of its submit loop.
NoItemInHand ==
  /\ \A k \in Listers : listers[k].st # "running"
  /\ \A e \in Emitters : emit[e].step # "send"
  /\ \A w \in ImportWorkers : workers[w].st = "idle"
  /\ \A g \in GenWorkers : gens[g].st \notin {"generate", "send", "fin"}
  /\ \A s \in AllServices : writers[s].st \notin {"add", "send", "fin"}
  /\ agg.st # "fin"
  /\ pc # "submitSend"

\* C28: the counter is never negative; when it is zero no queue holds an
\* item and no task is in the middle of one; and a step takes at most one
\* off the counter (a task adds for the work it creates in steps of their
\* own, before the one that counts its own item down).
C28_ZeroMeansIdle ==
  /\ [](counter >= 0 /\ (counter = 0 => NoItemQueued /\ NoItemInHand))
  /\ [][counter' >= counter - 1]_vars

\* C28, its case: the counter is back at zero at the barrier of a
\* generation in which a writer sent an import command on.
C28_ZeroMeansIdle_Witness ==
  /\ pc = "submit"
  /\ submitted = Len(Scope)
  /\ counter = 0
  /\ FreshCommands # {}

\* C29: no send is made on a closed queue: a step that puts an item on an
\* import queue is taken while the import queues are open, and a step that
\* puts an item on the resources queue, a writer queue or the
\* import-command queue is taken while the queues of generation are open.
C29_NoSendOnClosed ==
  [][/\ \A c \in Channels :
          Len(chans'[c]) > Len(chans[c]) => importOpen
     /\ Len(resourcesChan') > Len(resourcesChan) => genChans = "open"
     /\ \A s \in AllServices :
          Len(writerChan'[s]) > Len(writerChan[s]) => genChans = "open"
     /\ Len(importChan') > Len(importChan) => genChans = "open"]_vars

\* C29, its case: every queue is closed after an Emit sent during the
\* import of another resource, a worker sent a block to a writer, and the
\* writer sent an import command.
C29_NoSendOnClosed_Witness ==
  /\ ~importOpen
  /\ genChans = "closed"
  /\ Len(State) = 2
  /\ \E s \in AllServices : writers[s].new # {}
  /\ FreshCommands # {}

\* C30, as stated: no file holds two blocks written in this run with the
\* same block name.
C30_NoTwoNewBlocksOfOneName ==
  \A s \in AllServices :
    \A i, j \in 1..Len(files[s].blocks) :
      (/\ i # j
       /\ files[s].blocks[i][2] = "new"
       /\ files[s].blocks[j][2] = "new")
      => files[s].blocks[i][1] # files[s].blocks[j][1]

\* processSingleResource has run for call.r with call.d.
Generated == call.op = "processSingleResource" /\ call.done

\* C24: what a generation worker sends to a writer has a body of at least
\* one block, and for a resource whose generated body holds no block
\* nothing is sent.
C24_NonEmptyBodySent ==
  Generated =>
    /\ \A i \in 1..Len(call.sent) : Len(call.sent[i].ResourceBody) >= 1
    /\ BodyBlocks(call.d) = <<>> => call.sent = <<>>
    /\ call.sent # <<>> =>
         (~call.d.ignore /\ BodyErr(call.d) = "nil"
          /\ call.sent = <<[WriteData(call.r) EXCEPT !.ImportCommand =
                              call.sent[1].ImportCommand]>>)

\* C24, its case: the custom body builder of the kind returned no error
\* and appended no block, and nothing was sent.
C24_NonEmptyBodySent_Witness ==
  /\ Generated
  /\ ~call.d.ignore
  /\ call.d.body = "empty"
  /\ call.sent = <<>>

(***************************************************************************)
(* The variables.                                                          *)
(***************************************************************************)

\* The variables registered in this run: the calls of variable that have
\* returned.
Registered ==
  UNION {{refs[g].todo[i] : i \in 1..(refs[g].idx - 1)} : g \in GenWorkers}

\* The run of the generation and of generateVariables is over.
VarsOver == varsState \notin {"none", "generation"}

\* C21, as stated: after an incremental run that registered a variable,
\* vars.tf holds the blocks of the prior vars.tf that are not a variable
\* registered in this run and one variable block for each variable
\* registered in this run, each once; when no variable was registered the
\* file is as the previous run left it.
C21_VariablesFile ==
  VarsOver =>
    /\ (incremental /\ Registered # {}) =>
         /\ varsFile.exists
         /\ SeqToSet(varsFile.blocks) =
              {priorVars.blocks[i] : i \in
                 {j \in 1..Len(priorVars.blocks) :
                    ~(/\ priorVars.blocks[j].type = "variable"
                      /\ priorVars.blocks[j].labels[1] \in Registered)}}
              \cup {VariableBlock(k) : k \in Registered}
         /\ \A k \in Registered : Count(VariableBlock(k), varsFile.blocks) = 1
    /\ Registered = {} => varsFile = priorVars

\* C27, as stated: no two generation workers are in a write of the
\* registry at the same time, and when generateVariables is called every
\* variable registered by a worker is in the registry.
C27_RegistryMutex ==
  /\ Cardinality({g \in GenWorkers : refs[g].writing}) <= 1
  /\ (\A g \in GenWorkers : refs[g].idx > Len(refs[g].todo)) =>
       Registered \subseteq variables

(***************************************************************************)
(* What Add and Emit leave behind.                                         *)
(***************************************************************************)

\* An Add of r is between its mark and its append.
Adding(r) ==
  \E w \in ImportWorkers : workers[w].r = r /\ workers[w].st = "addAppend"

\* C31, as stated: whenever a resource is marked as added and no Add of it
\* is between its mark and its append, State and Scope each hold exactly
\* one entry for it.
C31_AddedOnceInStateAndScope ==
  \A r \in Resources :
    (importing[r] = "true" /\ ~Adding(r)) =>
      (Count(r, State) = 1 /\ Count(r, Scope) = 1)

\* The call of Emit has returned.
Emitted == call.op = "Emit" /\ call.done

\* The queues that hold the resource of the call.
QueuesHolding(r) == {c \in Channels : InSeq(r, chans[c])}

\* C32, as stated: when the call of Emit recorded the identity as being
\* emitted, the resource is in exactly one import queue, once, and counted;
\* when the call put it in no queue the tracker is as it was.
C32_RecordedMeansQueued ==
  Emitted =>
    /\ importing[call.r] # call.was =>
         /\ Cardinality(QueuesHolding(call.r)) = 1
         /\ \A c \in QueuesHolding(call.r) : chans[c] = <<call.r>>
         /\ counter = 1
    /\ QueuesHolding(call.r) = {} => importing[call.r] = call.was

\* C40: a call of Emit that accepts its resource puts it, once, in the
\* queue of its kind when the kind has a queue of its own and in the
\* default queue otherwise, and in no other queue; a call that does not
\* accept it puts it in no queue.
C40_OneQueuePerEmit ==
  Emitted =>
    LET r == call.r
        own == IF KindOf(r) \in DedicatedKinds THEN KindOf(r)
               ELSE DefaultChannel
    IN  IF counter = 1
          THEN chans = [c \in Channels |-> IF c = own THEN <<r>> ELSE <<>>]
          ELSE counter = 0 /\ chans = [c \in Channels |-> <<>>]

\* C40, its case: a group was accepted and is in the queue of the groups,
\* while the tracker holds the job as added.
C40_OneQueuePerEmit_Witness ==
  /\ Emitted
  /\ call.r = "g1"
  /\ counter = 1
  /\ chans["databricks_group"] = <<"g1">>
  /\ importing["j1"] = "true"

(***************************************************************************)
(* The writers and the import script.                                      *)
(***************************************************************************)

\* The import commands of this run that a writer is about to send, that
\* are in the queue of the aggregator, or that the aggregator has written.
CommandsOfRun ==
  {writers[s].cur : s \in {t \in AllServices : writers[t].st \in {"add", "send"}}}
  \cup SeqToSet(importChan)
  \cup (IF "import.sh" \in touched THEN FreshCommands ELSE {})

\* C36: every import command of this run, from the moment its writer takes
\* it up to the import script, belongs to a block that the writer of its
\* service has written to its file in this run; and the step in which the
\* write of a block fails sends no command and takes none up.
C36_CommandAfterBlock ==
  /\ [](\A cmd \in CommandsOfRun :
          \E s \in AllServices :
            /\ TargetOf(cmd) \in writers[s].new
            /\ InSeq(NewBlock(TargetOf(cmd)), files[s].blocks))
  /\ [][\A s \in AllServices :
          (writers[s].ioerr # "write" /\ writers'[s].ioerr = "write") =>
            /\ importChan' = importChan
            /\ sh' = sh
            /\ writers'[s].st = "fin"
            /\ writers'[s].cur = NoCommand]_vars

\* C36, its case: the write of one block failed and the import command of
\* another block, which was written, is in the import script.
C36_CommandAfterBlock_Witness ==
  /\ \E s \in AllServices : writers[s].ioerr = "write"
  /\ "import.sh" \in touched
  /\ FreshCommands # {}
  /\ agg.st = "exited"


RECURSIVE IsSubseq(_, _)
IsSubseq(a, b) ==
  IF a = <<>> THEN TRUE
  ELSE IF b = <<>> THEN FALSE
  ELSE IF Head(a) = Head(b) THEN IsSubseq(Tail(a), Tail(b))
  ELSE IsSubseq(a, Tail(b))

NewOf(blocks) == SelectSeq(blocks, LAMBDA b : b[2] = "new")
PriorOf(blocks) == SelectSeq(blocks, LAMBDA b : b[2] = "old")

\* The blocks of the existing jobs.tf that an incremental run preserves:
\* those that did not arrive anew.
Preserved ==
  SelectSeq(OldBlocks(PriorFile("jobs")),
            LAMBDA b : b[1] \notin SeqToSet(call.arrived))

\* C37: in a file the writer wrote, the newly generated blocks are in the
\* order in which they arrived on the writer's queue, and in an incremental
\* run all the preserved blocks of the existing file follow them, in the
\* order they had. (A block whose write failed is not in the file, and
\* the preserved blocks are not when their write failed.)
C37_BlockOrder ==
  LET blocks == files["jobs"].blocks IN
    /\ blocks = NewOf(blocks) \o PriorOf(blocks)
    /\ IsSubseq(BlockNames(NewOf(blocks)), call.arrived)
    /\ IsSubseq(PriorOf(blocks), OldBlocks(PriorFile("jobs")))
    /\ (writers["jobs"].st = "exited" /\ writers["jobs"].ioerr = "none") =>
          /\ BlockNames(NewOf(blocks)) = call.arrived
          /\ PriorOf(blocks) = IF incremental THEN Preserved ELSE <<>>

C37_BlockOrder_Witness ==
  /\ incremental
  /\ writers["jobs"].st = "exited"
  /\ call.arrived = <<"y1", "j1">>
  /\ files["jobs"].blocks = <<NewBlock("y1"), NewBlock("j1"), OldBlock("x1")>>


\* C39: the block a generation worker sends carries an import command only
\* when its resource is managed (its mode is not "data") and the schema of
\* its kind has an importer, and then it carries the command of the
\* resource; the block of a data-mode resource carries none, which is what
\* the writer tests before it sends a line to the import script.
C39_CommandOnlyManagedImportable ==
  Generated =>
    \A i \in 1..Len(call.sent) :
      /\ call.sent[i].ImportCommand # NoCommand
            <=> (call.mode # "data" /\ call.importer)
      /\ call.sent[i].ImportCommand \in {NoCommand, ImportCommand(call.r)}
      /\ call.mode = "data" => call.sent[i].ImportCommand = NoCommand

\* C39, its case: the block of a data-mode resource of an importable kind
\* was sent.
C39_CommandOnlyManagedImportable_Witness ==
  /\ Generated
  /\ call.mode = "data"
  /\ call.importer
  /\ call.sent # <<>>
  /\ call.sent[1].ImportCommand = NoCommand


\* The field of the call refers to the attribute value of sr: the value is
\* that attribute of sr, or under the prefix policy starts with it.
RefersTo(sr) ==
  IF call.ref.MatchType = MatchPrefix
    THEN HasPrefix(call.value, TargetValue(sr))
    ELSE call.value = TargetValue(sr)

\* No other approximation of the kind has the same value of the attribute.
OnlyHolder(sr) ==
  \A other \in Targets : TargetValue(other) = TargetValue(sr) => other = sr

\* The tokens hold the reference expression to sr.
HoldsReferenceTo(tokens, sr) ==
  LET trav == TokensForTraversal(TargetTraversal(sr)) IN
  \E i \in 1..Len(tokens) :
    /\ i + Len(trav) - 1 <= Len(tokens)
    /\ SubSeq(tokens, i, i + Len(trav) - 1) = trav

\* C33, as stated: resolution sees every approximation added during the
\* run, and a block whose field refers to an attribute value of an added
\* resource holds the reference expression to that resource, whatever the
\* order in which the resources were added. (Exact, default and prefix
\* policies; the resource is the only one of its kind with that value.)
C33_ReferenceWhateverTheOrder ==
  Resolved({MatchExact, MatchDefault, MatchPrefix}) =>
    \A sr \in Targets :
      (RefersTo(sr) /\ OnlyHolder(sr)) => HoldsReferenceTo(call.tokens, sr)


\* s holds sub.
Contains(s, sub) ==
  \E i \in 0..(Len(s) - Len(sub)) : SubSeq(s, i + 1, i + Len(sub)) = sub

\* The values of the field of the call, as they would be printed.
Printed(raw) ==
  CASE raw.kind = "string" -> {raw.v}
    [] raw.kind = "int" -> {FormatInt(raw.v)}
    [] raw.kind = "bool" -> {}
    [] raw.kind = "list" ->
         {raw.v[i].v : i \in {j \in 1..Len(raw.v) : raw.v[j].kind = "string"}}

\* The loop body of dataToHcl has run for a field that has a value and
\* whose path has a Variable dependency.
VariableField ==
  /\ call.op = "dataToHcl"
  /\ call.done
  /\ call.dep = "Variable"
  /\ call.raw \notin {Raw("string", <<>>), Raw("int", 0), Raw("bool", FALSE),
                       Raw("list", <<>>)}

\* C35, as stated: for a field with a Variable dependency the block holds
\* a variable-reference expression in place of the value, the variable of
\* that name is registered, and the value of the field is neither in the
\* block nor in the name of the variable; scalar fields and primitive
\* lists alike.
C35_VariableInPlaceOfValue ==
  VariableField =>
    /\ ~call.panic
    /\ call.set
    /\ variables # {}
    /\ \A name \in variables :
         \E i \in 1..Len(call.attr) :
           /\ i + 2 <= Len(call.attr)
           /\ SubSeq(call.attr, i, i + 2) = TokensForTraversal(<<Var, name>>)
    /\ \A v \in Printed(call.raw) :
         /\ \A name \in variables : ~Contains(name, v)
         /\ \A i \in 1..Len(call.attr) :
              call.attr[i].Type # "TokenIdent" => ~Contains(call.attr[i].Bytes, v)


\* q2 is q with one item sent.
Sent(q, q2) == Len(q2) = Len(q) + 1 /\ IsPrefix(q, q2)

\* q2 is q with its first item received.
Received(q, q2) == q # <<>> /\ q2 = Tail(q)

\* Every receiver of a closed queue has taken all that was sent and is out
\* of its loop, or is at its loop with a step to take: the writer that has
\* yet to open its file or to end, the aggregator that has yet to end.
ClosedAndDrained ==
  /\ ~importOpen =>
        /\ \A c \in Channels : chans[c] = <<>>
        /\ \A w \in ImportWorkers : WorkerExited(w)
  /\ genChans = "closed" =>
        /\ resourcesChan = <<>>
        /\ \A g \in GenWorkers : GenExited(g)
        /\ importChan = <<>>
        /\ agg.st \in {"idle", "exited"}
        /\ agg.st = "idle" => ENABLED AggStep
        /\ \A s \in AllServices :
             /\ writerChan[s] = <<>>
             /\ writers[s].st \in {"start", "loop", "exited", "failed"}
             /\ writers[s].st \in {"start", "loop"} => ENABLED Writer(s)

\* A queue changes only by a send or by a receiver at its loop taking the
\* first item, which it then holds (the aggregator writes it at once).
NothingLost ==
  /\ \A c \in Channels :
       \/ chans'[c] = chans[c]
       \/ Sent(chans[c], chans'[c])
       \/ /\ Received(chans[c], chans'[c])
          /\ \E w \in ImportWorkers :
               /\ w[1] = c
               /\ workers[w].st = "idle"
               /\ workers'[w].st = "import"
               /\ workers'[w].r = Head(chans[c])
  /\ \/ resourcesChan' = resourcesChan
     \/ Sent(resourcesChan, resourcesChan')
     \/ /\ Received(resourcesChan, resourcesChan')
        /\ \E g \in GenWorkers :
             /\ gens[g].st = "idle"
             /\ gens'[g] = [st |-> "generate", r |-> Head(resourcesChan)]
  /\ \A s \in AllServices :
       \/ writerChan'[s] = writerChan[s]
       \/ Sent(writerChan[s], writerChan'[s])
       \/ /\ Received(writerChan[s], writerChan'[s])
          /\ writers[s].st = "loop"
          /\ writers'[s].st \in {"add", "fin"}
  /\ \/ importChan' = importChan
     \/ Sent(importChan, importChan')
     \/ /\ Received(importChan, importChan')
        /\ agg.st = "idle"
        /\ agg'.st = "fin"
        /\ shOpen => sh'.cmds = Append(sh.cmds, Head(importChan))

\* C38: once a queue is closed each of its receivers has taken every item
\* sent before the close and has left its loop (the import handlers and the
\* generation workers), or is at its loop over the empty queue and can go
\* on to its end (the writers and the aggregator); no item leaves a queue
\* other than into the hands of a receiver.
C38_DrainThenExit == []ClosedAndDrained /\ [][NothingLost]_vars

\* C38, its case: both closes are done; the handlers imported resources,
\* the workers generated them, a writer wrote a block and has ended, and
\* the aggregator wrote a command and has ended.
C38_DrainThenExit_Witness ==
  /\ ~importOpen
  /\ genChans = "closed"
  /\ Len(State) >= 1
  /\ \A s \in AllServices : writers[s].st = "exited"
  /\ \E s \in AllServices : writers[s].new # {}
  /\ agg.st = "exited"
  /\ "import.sh" \in touched
  /\ sh.cmds # <<>>


\* The handlers of the channel that are in ImportResource.
Importing == {i \in DOMAIN call.handlers : call.handlers[i] # NoRes}

\* C34: with the default configuration (EXPORTER_PARALLELISM_<kind> not
\* set) the channel of databricks_user and the channel of
\* databricks_service_principal each have exactly one handler, and at no
\* instant are two resources of such a kind being imported.
C34_IdentityKindsSequential ==
  (/\ call.op = "startImportChannels"
   /\ call.started
   /\ call.env = Unset
   /\ call.kind \in {"databricks_user", "databricks_service_principal"}) =>
    /\ Len(call.handlers) = 1
    /\ Cardinality(Importing) <= 1

\* C34, its case: the one handler of databricks_user has imported a first
\* user and is importing the second while a third waits in the channel.
C34_IdentityKindsSequential_Witness ==
  /\ call.op = "startImportChannels"
  /\ call.kind = "databricks_user"
  /\ call.env = Unset
  /\ call.imported = {Items[1]}
  /\ call.handlers = <<Items[2]>>
  /\ call.ch = <<Items[3]>>

====
